---- MODULE Spec2Model ----
(***************************************************************************)
(* Model of the port-forwarding engine of xssh (package forwarding):       *)
(* the ForwardingManager's session registry and SSH client pool, the       *)
(* StartForwarding / StopForwarding / StopAll calls taken one statement    *)
(* group at a time, the acceptor goroutine of every session and the        *)
(* connection handler goroutines it spawns.                                *)
(*                                                                         *)
(* Goroutines interleave between the labelled steps.  Each caller is a     *)
(* goroutine that invokes the manager's API; sync.Map operations (Load,    *)
(* Store, Delete) and the atomic operations on a session are single steps. *)
(***************************************************************************)
EXTENDS Integers, Sequences, FiniteSets, TLC

\* ---------------------------------------------------------------- bounds
MaxSessions == 2     \* ForwardingSession objects alive at a time
MaxConns    == 2     \* connections ever accepted, over all sessions
MaxErr      == 1     \* cap on a session's Stats.ErrorCount
MaxClients  == 2     \* ssh.Client objects ever dialed
MaxBytes    == 2     \* bytes the peers of all connections send, in all
MaxPumps    == 1     \* connections whose copy goroutines are followed step by step

\* ------------------------------------------------------------- constants
LocalForward   == 0
RemoteForward  == 1
DynamicForward == 2

\* ForwardingType is an int: the value after DynamicForward is not one of
\* the three declared types and takes the default branch of the switch.
ForwardingTypes == LocalForward .. (DynamicForward + 1)

Callers  == {"c1", "c2"}
Ids      == {"a", "b"}
ClientKeys == {"u@h:22"}

\* The rules the callers pass: both ids, and every forwarding type.
Rules ==
    {[ID |-> "a", Type |-> LocalForward], [ID |-> "a", Type |-> RemoteForward],
     [ID |-> "b", Type |-> DynamicForward], [ID |-> "b", Type |-> DynamicForward + 1]}

VARIABLES
    sessions,     \* fm.sessions   : rule id -> session object (0 = no entry)
    heap,         \* the ForwardingSession objects (a slot is free or holds one)
    handlers,     \* per session: number of connection goroutines at each point
    sshClients,   \* fm.sshClients : client key -> ssh.Client (0 = no entry)
    clients,      \* the ssh.Client objects: "alive", "dead" or "closed"
    callers,      \* per caller: the API call in progress and its locals
    panicked,     \* a goroutine panicked (close of closed channel)
    pumps,        \* forwardData calls in detail: the two copy goroutines of each
    socks,        \* socks5Handshake in detail: the bytes read from and written to a client
    auth,         \* createSSHClient in detail: the authentication methods it builds
    cli,          \* a run of the command line: its arguments, options and outcome
    store,        \* the host configuration: the file and the SSHConfig loaded from it
    accept,       \* an acceptor loop in detail: its position and the result of Accept
    ui            \* the interactive Model: view mode, host lists, cursor and form

\* The variables of the detailed views; the engine's actions leave them alone.
tools == <<cli, store, accept, ui>>

aux == <<pumps, socks, auth, cli, store, accept, ui>>

vars == <<sessions, heap, handlers, sshClients, clients, callers, panicked, pumps, socks, auth,
          cli, store, accept, ui>>

\* ----------------------------------------------------------- data types
NoRule == [ID |-> "", Type |-> LocalForward]

\* A caller's locals.  pc "idle": no call in progress; pc "returned": the
\* call named by op has just returned err ("" is a nil error).  pool is
\* fm.sshClients as the caller saw it when it called StartForwarding.
Idle == [pc |-> "idle", op |-> "", rule |-> NoRule, host |-> "", s |-> 0,
         client |-> 0, ids |-> <<>>, snap |-> {}, pool |-> <<>>, err |-> ""]

HandlerPcs == {"start", "handshake", "dial", "pump", "linger"}

NoHandlers == [p \in HandlerPcs |-> 0]

Objs == 1 .. MaxSessions

\* &ForwardingSession{Rule: rule, Stats: ..., done: make(chan struct{})}
NewSession(rule) ==
    [live |-> TRUE, Rule |-> rule, active |-> 0, listener |-> "nil", done |-> "open",
     acceptor |-> "none", sshClient |-> 0,
     BytesReceived |-> 0, BytesSent |-> 0,
     ConnectionCount |-> 0, ActiveConnections |-> 0,
     ErrorCount |-> 0, LastError |-> ""]

\* A slot of the heap that holds no object.
FreeSlot == [NewSession(NoRule) EXCEPT !.live = FALSE]

\* ------------------------------------------------- ForwardingSession ops
IsActive(s) == heap[s].active = 1

SetActive(h, s, active) ==
    [h EXCEPT ![s].active = IF active THEN 1 ELSE 0]

IncrementConnections(h, s) ==
    [h EXCEPT ![s].ConnectionCount = @ + 1, ![s].ActiveConnections = @ + 1]

AddBytesReceived(h, s, bytes) ==
    [h EXCEPT ![s].BytesReceived = @ + bytes]

AddBytesSent(h, s, bytes) ==
    [h EXCEPT ![s].BytesSent = @ + bytes]

\* A decrement that also takes the connection off the total.
DecrementBothConnections(h, s) ==
    [h EXCEPT ![s].ActiveConnections = @ - 1, ![s].ConnectionCount = @ - 1]

DecrementActiveConnections(h, s) ==
    [h EXCEPT ![s].ActiveConnections = @ - 1]

\* An error count that also marks the session inactive.
IncrementErrorsAndStop(h, s, err) ==
    [h EXCEPT ![s].ErrorCount = @ + 1, ![s].LastError = err, ![s].active = 0]

IncrementErrors(h, s, err) ==
    [h EXCEPT ![s].ErrorCount = @ + 1, ![s].LastError = err]

\* ------------------------------------------------------ registry reads
GetSession(id) ==
    IF sessions[id] # 0 THEN <<sessions[id], TRUE>> ELSE <<0, FALSE>>

GetAllSessions == {sessions[id] : id \in {i \in Ids : sessions[i] # 0}}

\* No SOCKS5 negotiation and no client creation is looked at in detail.
NoSocks == <<>>

NoAuth == <<>>

\* No command line is run and no configuration file is looked at.
NoCli == <<>>

NoStore == <<>>

\* No acceptor loop is followed in detail.
NoAccept == <<>>

\* The interactive program is not running.
NoUi == <<>>

\* ------------------------------------------------------------ Init
Init ==
    /\ sessions = [id \in Ids |-> 0]
    /\ heap = [s \in Objs |-> FreeSlot]
    /\ handlers = [s \in Objs |-> NoHandlers]
    /\ sshClients = [k \in ClientKeys |-> 0]
    /\ clients = <<>>
    /\ callers = [c \in Callers |-> Idle]
    /\ panicked = FALSE
    /\ cli = NoCli
    /\ store = NoStore
    /\ accept = NoAccept
    /\ ui = NoUi
    /\ pumps = <<>>
    /\ socks = NoSocks
    /\ auth = NoAuth

\* A session object is reachable while the registry, a caller, its acceptor
\* or one of its connection goroutines refers to it.
Reachable(s) ==
    \/ \E id \in Ids : sessions[id] = s
    \/ \E c \in Callers : callers[c].s = s \/ s \in callers[c].snap
    \/ heap[s].acceptor = "running"
    \/ \E p \in HandlerPcs : handlers[s][p] > 0

Garbage == {s \in Objs : heap[s].live /\ ~Reachable(s)}

\* A returned caller resumes, and garbage is reclaimed, before anything else.
Busy == Garbage # {} \/ \E c \in Callers : callers[c].pc = "returned"

\* The process is running and the program takes its next step.
Ready == ~panicked /\ ~Busy

\* The call of caller c returns err.
Return(c, op, id, err, s) ==
    callers' = [callers EXCEPT ![c] =
        [Idle EXCEPT !.pc = "returned", !.op = op, !.rule = [NoRule EXCEPT !.ID = id],
                     !.err = err, !.s = s, !.snap = callers[c].snap,
                     !.pool = callers[c].pool]]

\* ------------------------------------------------------ StartForwarding
\* StartForwarding without the check for an existing session.
StartForwardingNoCheck(c, rule, host) ==
    /\ callers[c].pc = "idle"
    /\ Ready
    /\ callers' = [callers EXCEPT ![c] =
           [Idle EXCEPT !.pc = "store", !.op = "StartForwarding",
                        !.rule = rule, !.host = host, !.pool = sshClients]]
    /\ UNCHANGED <<sessions, heap, handlers, sshClients, clients, panicked, aux>>

\* Entry: the Load of rule.ID and the early "already exists" return.
StartForwarding(c, rule, host) ==
    /\ callers[c].pc = "idle"
    /\ Ready
    /\ IF sessions[rule.ID] # 0
       THEN /\ Return(c, "StartForwarding", rule.ID, "already exists", 0)
            /\ UNCHANGED <<sessions, heap, handlers, sshClients, clients, panicked>>
       ELSE /\ callers' = [callers EXCEPT ![c] =
                   [Idle EXCEPT !.pc = "store", !.op = "StartForwarding",
                                !.rule = rule, !.host = host, !.pool = sshClients]]
            /\ UNCHANGED <<sessions, heap, handlers, sshClients, clients, panicked>>
    /\ UNCHANGED aux

\* Creates the session and stores it under rule.ID; the switch on rule.Type
\* then enters the starter, or takes the default branch.
StartStore(c) ==
    /\ callers[c].pc = "store"
    /\ Ready
    /\ \E f \in Objs : ~heap[f].live
    /\ LET s == CHOOSE f \in Objs : ~heap[f].live /\ \A g \in 1 .. (f - 1) : heap[g].live
           rule == callers[c].rule
       IN /\ heap' = [heap EXCEPT ![s] = NewSession(rule)]
          /\ handlers' = handlers
          /\ sessions' = [sessions EXCEPT ![rule.ID] = s]
          /\ callers' = [callers EXCEPT ![c].s = s,
                 ![c].pc = IF rule.Type \in {LocalForward, RemoteForward, DynamicForward}
                           THEN "getclient" ELSE "unsupported"]
    /\ UNCHANGED <<sshClients, clients, panicked, aux>>

\* A failed starter whose registration is not rolled back.
StartFailNoRollback(c, err) ==
    /\ UNCHANGED sessions
    /\ Return(c, "StartForwarding", callers[c].rule.ID, err, callers[c].s)

\* The starter failed: fm.sessions.Delete(rule.ID); return err
StartFail(c, err) ==
    /\ sessions' = [sessions EXCEPT ![callers[c].rule.ID] = 0]
    /\ Return(c, "StartForwarding", callers[c].rule.ID, err, callers[c].s)

\* default branch of the switch: unsupported forwarding type
StartUnsupported(c) ==
    /\ callers[c].pc = "unsupported"
    /\ Ready
    /\ StartFail(c, "unsupported forwarding type")
    /\ UNCHANGED <<heap, handlers, sshClients, clients, panicked, aux>>

\* getSSHClient that does not look in the pool.
getSSHClientNoLoad(c) ==
    /\ callers[c].pc = "getclient"
    /\ Ready
    /\ callers' = [callers EXCEPT ![c].client = 0, ![c].pc = "create"]
    /\ UNCHANGED <<sessions, heap, handlers, sshClients, clients, panicked, aux>>

\* getSSHClient: Load of the pooled client for the host's key
getSSHClient(c) ==
    /\ callers[c].pc = "getclient"
    /\ Ready
    /\ LET cl == sshClients[callers[c].host]
       IN callers' = [callers EXCEPT ![c].client = cl,
                         ![c].pc = IF cl # 0 THEN "probe" ELSE "create"]
    /\ UNCHANGED <<sessions, heap, handlers, sshClients, clients, panicked, aux>>

\* A failed probe that closes the cached client and leaves it in the pool.
getSSHClientProbeKeepsEntry(c) ==
    /\ callers[c].pc = "probe"
    /\ Ready
    /\ LET cl == callers[c].client
       IN IF clients[cl] = "alive"
          THEN /\ callers' = [callers EXCEPT ![c].pc = "listen"]
               /\ UNCHANGED clients
          ELSE /\ clients' = [clients EXCEPT ![cl] = "closed"]
               /\ callers' = [callers EXCEPT ![c].pc = "create", ![c].client = 0]
    /\ UNCHANGED <<sessions, heap, handlers, sshClients, panicked, aux>>

\* getSSHClient: keepalive probe of the cached client; a failed probe evicts
\* the key's entry and closes the cached client.
getSSHClientProbe(c) ==
    /\ callers[c].pc = "probe"
    /\ Ready
    /\ LET cl == callers[c].client
       IN IF clients[cl] = "alive"
          THEN /\ callers' = [callers EXCEPT ![c].pc = "listen"]
               /\ UNCHANGED <<sshClients, clients>>
          ELSE /\ sshClients' = [sshClients EXCEPT ![callers[c].host] = 0]
               /\ clients' = [clients EXCEPT ![cl] = "closed"]
               /\ callers' = [callers EXCEPT ![c].pc = "create", ![c].client = 0]
    /\ UNCHANGED <<sessions, heap, handlers, panicked, aux>>

\* createSSHClient and the Store of its result; a failed dial or key load
\* makes the starter, and StartForwarding, fail.
createSSHClient(c) ==
    /\ callers[c].pc = "create"
    /\ Ready
    /\ \/ /\ Len(clients) < MaxClients
          /\ clients' = Append(clients, "alive")
          /\ sshClients' = [sshClients EXCEPT ![callers[c].host] = Len(clients) + 1]
          /\ callers' = [callers EXCEPT ![c].client = Len(clients) + 1,
                                        ![c].pc = "listen"]
          /\ UNCHANGED <<sessions, heap, handlers, panicked>>
       \/ /\ StartFail(c, "failed to get SSH client")
          /\ UNCHANGED <<heap, handlers, sshClients, clients, panicked>>
    /\ UNCHANGED aux

\* The listen step of a starter: on success the listener is stored in the
\* session and the acceptor goroutine is spawned; on failure the starter
\* returns the error.  A listen through the SSH client needs a live client.
StarterListen(c, viaClient, err) ==
    LET s == callers[c].s
        cl == callers[c].client
    IN \/ /\ viaClient => clients[cl] = "alive"
          /\ heap' = [heap EXCEPT ![s].listener = "open",
                                  ![s].acceptor = "running",
                                  ![s].sshClient = cl]
          /\ callers' = [callers EXCEPT ![c].pc = "setactive"]
          /\ UNCHANGED <<sessions, handlers, sshClients, clients, panicked>>
       \/ /\ StartFail(c, err)
          /\ UNCHANGED <<heap, handlers, sshClients, clients, panicked>>

startLocalForwarding(c) ==
    /\ callers[c].pc = "listen"
    /\ Ready
    /\ callers[c].rule.Type = LocalForward
    /\ StarterListen(c, FALSE, "failed to listen")
    /\ UNCHANGED aux

startRemoteForwarding(c) ==
    /\ callers[c].pc = "listen"
    /\ Ready
    /\ callers[c].rule.Type = RemoteForward
    /\ StarterListen(c, TRUE, "failed to listen on remote")
    /\ UNCHANGED aux

startDynamicForwarding(c) ==
    /\ callers[c].pc = "listen"
    /\ Ready
    /\ callers[c].rule.Type = DynamicForward
    /\ StarterListen(c, FALSE, "failed to listen")
    /\ UNCHANGED aux

\* session.SetActive(true); return nil
StartSetActive(c) ==
    /\ callers[c].pc = "setactive"
    /\ Ready
    /\ heap' = SetActive(heap, callers[c].s, TRUE)
    /\ Return(c, "StartForwarding", callers[c].rule.ID, "", callers[c].s)
    /\ UNCHANGED <<sessions, handlers, sshClients, clients, panicked, aux>>

\* ------------------------------------------------------- StopForwarding
\* StopLoad without session.SetActive(false).
StopLoadStaysActive(c, id, op, rest) ==
    IF sessions[id] = 0
    THEN /\ IF op = "StopAll" /\ rest # <<>>
            THEN callers' = [callers EXCEPT ![c].ids = rest]
            ELSE Return(c, op, id, IF op = "StopAll" THEN "" ELSE "not found", 0)
         /\ UNCHANGED <<sessions, heap, handlers, sshClients, clients, panicked>>
    ELSE /\ callers' = [callers EXCEPT ![c] =
                [Idle EXCEPT !.pc = "closelistener", !.op = op,
                             !.rule = [NoRule EXCEPT !.ID = id],
                             !.s = sessions[id], !.ids = rest,
                             !.snap = callers[c].snap]]
         /\ UNCHANGED <<sessions, heap, handlers, sshClients, clients, panicked>>

\* Load of the id, and session.SetActive(false) when it is present.  In a
\* StopAll loop the error of an absent id is dropped and the loop goes on.
StopLoad(c, id, op, rest) ==
    IF sessions[id] = 0
    THEN /\ IF op = "StopAll" /\ rest # <<>>
            THEN callers' = [callers EXCEPT ![c].ids = rest]
            ELSE Return(c, op, id, IF op = "StopAll" THEN "" ELSE "not found", 0)
         /\ UNCHANGED <<sessions, heap, handlers, sshClients, clients, panicked>>
    ELSE /\ heap' = SetActive(heap, sessions[id], FALSE)
         /\ callers' = [callers EXCEPT ![c] =
                [Idle EXCEPT !.pc = "closelistener", !.op = op,
                             !.rule = [NoRule EXCEPT !.ID = id],
                             !.s = sessions[id], !.ids = rest,
                             !.snap = callers[c].snap]]
         /\ UNCHANGED <<sessions, handlers, sshClients, clients, panicked>>

\* StopForwarding that returns nil for an id that is not registered.
StopForwardingAbsentNil(c, sessionID) ==
    /\ callers[c].pc = "idle"
    /\ Ready
    /\ IF sessions[sessionID] = 0
       THEN /\ Return(c, "StopForwarding", sessionID, "", 0)
            /\ UNCHANGED <<sessions, heap, handlers, sshClients, clients, panicked>>
       ELSE StopLoad(c, sessionID, "StopForwarding", <<>>)
    /\ UNCHANGED aux

StopForwarding(c, sessionID) ==
    /\ callers[c].pc = "idle"
    /\ Ready
    /\ StopLoad(c, sessionID, "StopForwarding", <<>>)
    /\ UNCHANGED aux

\* A stop that signals the shutdown channel as it closes the listener.
StopCloseListenerAndDone(c) ==
    /\ callers[c].pc = "closelistener"
    /\ Ready
    /\ LET s == callers[c].s
       IN heap' = [heap EXCEPT ![s].listener = IF @ = "nil" THEN "nil" ELSE "closed",
                               ![s].done = "closed"]
    /\ callers' = [callers EXCEPT ![c].pc = "closedone"]
    /\ UNCHANGED <<sessions, handlers, sshClients, clients, panicked, aux>>

\* A stop that also closes the SSH client the session uses.
StopCloseListenerAndClient(c) ==
    /\ callers[c].pc = "closelistener"
    /\ Ready
    /\ LET s == callers[c].s
       IN /\ heap' = [heap EXCEPT ![s].listener = IF @ = "nil" THEN "nil" ELSE "closed"]
          /\ clients' = IF heap[s].sshClient = 0 THEN clients
                        ELSE [clients EXCEPT ![heap[s].sshClient] = "closed"]
    /\ callers' = [callers EXCEPT ![c].pc = "closedone"]
    /\ UNCHANGED <<sessions, handlers, sshClients, panicked, aux>>

\* if session.listener != nil { session.listener.Close() }
StopCloseListener(c) ==
    /\ callers[c].pc = "closelistener"
    /\ Ready
    /\ LET s == callers[c].s
       IN heap' = [heap EXCEPT ![s].listener = IF @ = "nil" THEN "nil" ELSE "closed"]
    /\ callers' = [callers EXCEPT ![c].pc = "closedone"]
    /\ UNCHANGED <<sessions, handlers, sshClients, clients, panicked, aux>>

\* close(session.done): closing a closed channel panics
StopCloseDone(c) ==
    /\ callers[c].pc = "closedone"
    /\ Ready
    /\ LET s == callers[c].s
       IN IF heap[s].done = "closed"
          THEN /\ panicked' = TRUE
               /\ UNCHANGED <<heap, callers>>
          ELSE /\ heap' = [heap EXCEPT ![s].done = "closed"]
               /\ callers' = [callers EXCEPT ![c].pc = "delete"]
               /\ UNCHANGED panicked
    /\ UNCHANGED <<sessions, handlers, sshClients, clients, aux>>

\* StopForwarding that returns without deleting the registry entry.
StopDeleteKeepsEntry(c) ==
    /\ callers[c].pc = "delete"
    /\ Ready
    /\ IF callers[c].op = "StopAll" /\ callers[c].ids # <<>>
       THEN callers' = [callers EXCEPT ![c] =
                [Idle EXCEPT !.pc = "stopall", !.op = "StopAll",
                             !.ids = callers[c].ids, !.snap = callers[c].snap]]
       ELSE Return(c, callers[c].op, callers[c].rule.ID, "", callers[c].s)
    /\ UNCHANGED <<sessions, heap, handlers, sshClients, clients, panicked, aux>>

\* fm.sessions.Delete(sessionID); return nil
StopDelete(c) ==
    /\ callers[c].pc = "delete"
    /\ Ready
    /\ sessions' = [sessions EXCEPT ![callers[c].rule.ID] = 0]
    /\ IF callers[c].op = "StopAll" /\ callers[c].ids # <<>>
       THEN callers' = [callers EXCEPT ![c] =
                [Idle EXCEPT !.pc = "stopall", !.op = "StopAll",
                             !.ids = callers[c].ids, !.snap = callers[c].snap]]
       ELSE Return(c, callers[c].op, callers[c].rule.ID, "", callers[c].s)
    /\ UNCHANGED <<heap, handlers, sshClients, clients, panicked, aux>>

\* --------------------------------------------------------------- StopAll
\* The orders in which a Range over the registry can visit a set of ids.
RECURSIVE Orders(_)
Orders(S) ==
    IF S = {} THEN {<<>>}
    ELSE UNION {{<<x>> \o o : o \in Orders(S \ {x})} : x \in S}

\* A Range that stops after the first id.
StopAllFirstOnly(c) ==
    /\ callers[c].pc = "idle"
    /\ Ready
    /\ \E ids \in Orders({id \in Ids : sessions[id] # 0}) :
          IF ids = <<>>
          THEN Return(c, "StopAll", "", "", 0)
          ELSE callers' = [callers EXCEPT ![c] =
                   [Idle EXCEPT !.pc = "stopall", !.op = "StopAll",
                                !.ids = <<Head(ids)>>, !.snap = GetAllSessions]]
    /\ UNCHANGED <<sessions, heap, handlers, sshClients, clients, panicked, aux>>

\* The Range that collects the registered ids.
StopAll(c) ==
    /\ callers[c].pc = "idle"
    /\ Ready
    /\ \E ids \in Orders({id \in Ids : sessions[id] # 0}) :
          IF ids = <<>>
          THEN Return(c, "StopAll", "", "", 0)
          ELSE callers' = [callers EXCEPT ![c] =
                   [Idle EXCEPT !.pc = "stopall", !.op = "StopAll", !.ids = ids,
                                !.snap = GetAllSessions]]
    /\ UNCHANGED <<sessions, heap, handlers, sshClients, clients, panicked, aux>>

\* One iteration of the loop: fm.StopForwarding(id)
StopAllNext(c) ==
    /\ callers[c].pc = "stopall"
    /\ Ready
    /\ StopLoad(c, Head(callers[c].ids), "StopAll", Tail(callers[c].ids))
    /\ UNCHANGED aux

\* The caller takes the result of its call and is free to make another.
Resume(c) ==
    /\ callers[c].pc = "returned"
    /\ callers' = [callers EXCEPT ![c] = Idle]
    /\ UNCHANGED <<sessions, heap, handlers, sshClients, clients, panicked, aux>>

\* -------------------------------------------------------------- acceptor
HasTimeout(s) == heap[s].Rule.Type \in {LocalForward, DynamicForward}

\* An iteration of the acceptor loop is one step, taken when Accept returns:
\* the select on session.done followed by the outcome of Accept.

\* case <-session.done: return, which runs the deferred listener.Close()
AcceptorDone(s) ==
    /\ heap[s].acceptor = "running"
    /\ Ready
    /\ heap[s].done = "closed"
    /\ heap' = [heap EXCEPT ![s].acceptor = "exited", ![s].listener = "closed"]
    /\ UNCHANGED <<sessions, handlers, sshClients, clients, callers, panicked, aux>>

\* The acceptor is in the default branch of its select.
Accepting(s) == heap[s].acceptor = "running" /\ heap[s].done = "open"

\* The accept deadline of a Local or Dynamic listener expires: continue.
AcceptTimeout(s) ==
    /\ Accepting(s)
    /\ Ready
    /\ HasTimeout(s)
    /\ heap[s].listener = "open"
    /\ UNCHANGED vars

\* Accept fails with an error that is not a deadline expiry: always on a
\* closed listener, and on a Remote listener whose SSH client is gone.
AcceptError(s) ==
    /\ Accepting(s)
    /\ Ready
    /\ \/ heap[s].listener = "closed"
       \/ heap[s].Rule.Type = RemoteForward /\ clients[heap[s].sshClient] # "alive"
    /\ IsActive(s) => heap[s].ErrorCount < MaxErr
    /\ heap' = IF IsActive(s) THEN IncrementErrors(heap, s, "accept error") ELSE heap
    /\ UNCHANGED <<sessions, handlers, sshClients, clients, callers, panicked, aux>>

RECURSIVE SumOver(_, _)
SumOver(f, S) ==
    IF S = {} THEN 0
    ELSE LET x == CHOOSE y \in S : TRUE IN f[x] + SumOver(f, S \ {x})

\* connections accepted so far, over all sessions
Accepted ==
    SumOver([s \in Objs |-> heap[s].ConnectionCount + handlers[s]["start"]], Objs)

\* Accept returns a connection: go handle...Connection(session, ...)
AcceptConn(s) ==
    /\ Accepting(s)
    /\ Ready
    /\ heap[s].listener = "open"
    /\ heap[s].Rule.Type = RemoteForward => clients[heap[s].sshClient] = "alive"
    /\ Accepted < MaxConns
    /\ handlers' = [handlers EXCEPT ![s]["start"] = @ + 1]
    /\ UNCHANGED <<sessions, heap, sshClients, clients, callers, panicked, aux>>

\* ----------------------------------------------------- connection handlers
Move(s, from, to) ==
    handlers' = [handlers EXCEPT ![s][from] = @ - 1, ![s][to] = @ + 1]

Leave(s, from) ==
    handlers' = [handlers EXCEPT ![s][from] = @ - 1]

\* Entry of a handler: session.IncrementConnections()
HandlerEnter(s, type, to) ==
    /\ handlers[s]["start"] > 0
    /\ Ready
    /\ heap[s].Rule.Type = type
    /\ heap' = IncrementConnections(heap, s)
    /\ Move(s, "start", to)
    /\ UNCHANGED <<sessions, sshClients, clients, callers, panicked, aux>>

\* A dial whose failure path returns without the decrement.
HandlerDialNoDecrement(s, type, viaClient, err) ==
    /\ handlers[s]["dial"] > 0
    /\ Ready
    /\ heap[s].Rule.Type = type
    /\ \/ /\ viaClient => clients[heap[s].sshClient] = "alive"
          /\ Move(s, "dial", "pump")
          /\ UNCHANGED heap
       \/ /\ heap[s].ErrorCount < MaxErr
          /\ heap' = IncrementErrors(heap, s, err)
          /\ Leave(s, "dial")
    /\ UNCHANGED <<sessions, sshClients, clients, callers, panicked, aux>>

\* Dial of the far end; on failure IncrementErrors and return, which runs
\* the deferred DecrementActiveConnections.  A dial through the session's
\* SSH client needs a live client.
HandlerDial(s, type, viaClient, err) ==
    /\ handlers[s]["dial"] > 0
    /\ Ready
    /\ heap[s].Rule.Type = type
    /\ \/ /\ viaClient => clients[heap[s].sshClient] = "alive"
          /\ Move(s, "dial", "pump")
          /\ UNCHANGED heap
       \/ /\ heap[s].ErrorCount < MaxErr
          /\ heap' = DecrementActiveConnections(IncrementErrors(heap, s, err), s)
          /\ Leave(s, "dial")
    /\ UNCHANGED <<sessions, sshClients, clients, callers, panicked, aux>>

handleLocalForwardConnection(s) == HandlerEnter(s, LocalForward, "dial")

handleRemoteForwardConnection(s) == HandlerEnter(s, RemoteForward, "dial")

handleSOCKS5Connection(s) == HandlerEnter(s, DynamicForward, "handshake")

\* The outcome of socks5Handshake in handleSOCKS5Connection.
socks5Handshake(s) ==
    /\ handlers[s]["handshake"] > 0
    /\ Ready
    /\ \/ /\ Move(s, "handshake", "dial")
          /\ UNCHANGED heap
       \/ /\ heap[s].ErrorCount < MaxErr
          /\ heap' = DecrementActiveConnections(
                        IncrementErrors(heap, s, "SOCKS5 handshake failed"), s)
          /\ Leave(s, "handshake")
    /\ UNCHANGED <<sessions, sshClients, clients, callers, panicked, aux>>

LocalDial(s) == HandlerDial(s, LocalForward, TRUE, "Failed to connect")

RemoteDial(s) == HandlerDial(s, RemoteForward, FALSE, "Failed to connect to local")

SOCKS5Dial(s) == HandlerDial(s, DynamicForward, TRUE, "Failed to connect")

\* A copy direction whose error is counted whatever the session's state.
CopyEndsCounted(s, er) ==
    IF er THEN IncrementErrors(heap, s, "Forward error") ELSE heap

\* A copy direction ends with error er (FALSE: end of stream, nil error):
\* it is counted when the session is active.
CopyEnds(s, er) ==
    IF er /\ IsActive(s) THEN IncrementErrors(heap, s, "Forward error") ELSE heap

\* forwardData: the first copy direction ends, forwardData returns and the
\* handler returns, running its deferred calls; the other copy goroutine
\* is still running.
forwardData(s) ==
    /\ handlers[s]["pump"] > 0
    /\ Ready
    /\ \E er \in BOOLEAN :
          /\ er /\ IsActive(s) => heap[s].ErrorCount < MaxErr
          /\ heap' = DecrementActiveConnections(CopyEnds(s, er), s)
    /\ Move(s, "pump", "linger")
    /\ UNCHANGED <<sessions, sshClients, clients, callers, panicked, aux>>

\* copyWithStats of the other direction ends after the handler has closed
\* both connections.
copyWithStats(s) ==
    /\ handlers[s]["linger"] > 0
    /\ Ready
    /\ \E er \in BOOLEAN :
          /\ er /\ IsActive(s) => heap[s].ErrorCount < MaxErr
          /\ heap' = CopyEnds(s, er)
    /\ Leave(s, "linger")
    /\ UNCHANGED <<sessions, sshClients, clients, callers, panicked, aux>>

\* ----------------------------------------------------------- environment
\* The connection of an SSH client breaks.
ClientDies(cl) ==
    /\ clients[cl] = "alive"
    /\ Ready
    /\ clients' = [clients EXCEPT ![cl] = "dead"]
    /\ UNCHANGED <<sessions, heap, handlers, sshClients, callers, panicked, aux>>

\* The runtime reclaims the unreachable session objects.
Collect ==
    /\ \A c \in Callers : callers[c].pc # "returned"
    /\ Garbage # {}
    /\ heap' = [s \in Objs |-> IF s \in Garbage THEN FreeSlot ELSE heap[s]]
    /\ UNCHANGED <<sessions, handlers, sshClients, clients, callers, panicked, aux>>

\* ------------------------------------------------------------------ Next
StartNext(c) ==
    \/ \E rule \in Rules, host \in ClientKeys : StartForwarding(c, rule, host)
    \/ StartStore(c)
    \/ StartUnsupported(c)
    \/ getSSHClient(c)
    \/ getSSHClientProbe(c)
    \/ createSSHClient(c)
    \/ startLocalForwarding(c)
    \/ startRemoteForwarding(c)
    \/ startDynamicForwarding(c)
    \/ StartSetActive(c)

StopNext(c) ==
    \/ \E id \in Ids : StopForwarding(c, id)
    \/ StopCloseListener(c)
    \/ StopCloseDone(c)
    \/ StopDelete(c)
    \/ StopAll(c)
    \/ StopAllNext(c)

AcceptorNext(s) ==
    \/ AcceptorDone(s)
    \/ AcceptTimeout(s)
    \/ AcceptError(s)

HandlerNext(s) ==
    \/ AcceptConn(s)
    \/ handleLocalForwardConnection(s)
    \/ handleRemoteForwardConnection(s)
    \/ handleSOCKS5Connection(s)
    \/ socks5Handshake(s)
    \/ LocalDial(s)
    \/ RemoteDial(s)
    \/ SOCKS5Dial(s)
    \/ forwardData(s)
    \/ copyWithStats(s)

\* One caller, as in the interactive program and the command line, the
\* acceptors of its sessions and the SSH servers.
Next ==
    \/ Resume("c1")
    \/ Collect
    \/ StartNext("c1")
    \/ StopNext("c1")
    \/ \E s \in Objs : AcceptorNext(s)
    \/ \E cl \in DOMAIN clients : ClientDies(cl)

Spec == Init /\ [][Next]_vars

\* One caller whose sessions serve connections.
NextConn ==
    \/ Resume("c1")
    \/ Collect
    \/ StartNext("c1")
    \/ StopNext("c1")
    \/ \E s \in Objs : AcceptorNext(s) \/ HandlerNext(s)

SpecConn == Init /\ [][NextConn]_vars

\* Callers on several goroutines.
NextConc ==
    \/ \E c \in Callers : Resume(c) \/ StartNext(c) \/ StopNext(c)
    \/ Collect
    \/ \E s \in Objs : AcceptorNext(s)

SpecConc == Init /\ [][NextConc]_vars

\* One goroutine that starts sessions and one that stops them.
NextRace ==
    \/ \E c \in Callers : Resume(c)
    \/ Collect
    \/ StartNext("c1")
    \/ \E id \in Ids : StopForwarding("c2", id)
    \/ StopCloseListener("c2")
    \/ StopCloseDone("c2")
    \/ StopDelete("c2")
    \/ \E s \in Objs : AcceptorNext(s)

SpecRace == Init /\ [][NextRace]_vars

\* One caller whose sessions serve connections while SSH servers fail.
NextPool ==
    \/ Resume("c1")
    \/ Collect
    \/ StartNext("c1")
    \/ StopNext("c1")
    \/ \E s \in Objs : AcceptorNext(s) \/ HandlerNext(s)
    \/ \E cl \in DOMAIN clients : ClientDies(cl)

SpecPool == Init /\ [][NextPool]_vars

\* ------------------------------------------------- the pump, in detail
\* One direction of a forwardData call: the copy goroutine running
\* copyWithStats(dst, src, statsCallback).  avail: bytes the source will still
\* deliver, of size in all; nr, nw: results of the last Read and Write; written: the local
\* of copyWithStats; dst: bytes the destination stream has taken; err: the
\* error copyWithStats returns is not nil.
NewCopy(avail) ==
    [pc |-> "read", size |-> avail, avail |-> avail, nr |-> 0, nw |-> 0,
     written |-> 0, dst |-> 0, err |-> FALSE]

\* A forwardData call of a handler of session s.  Direction 1 copies conn1
\* to conn2 and is counted by AddBytesSent, direction 2 copies conn2 to conn1
\* and is counted by AddBytesReceived.  joined: forwardData has returned and
\* the handler's deferred calls have closed both connections.
NewPump(s, avail1, avail2) ==
    [s |-> s, joined |-> FALSE, dir |-> <<NewCopy(avail1), NewCopy(avail2)>>]

Dirs == {1, 2}

\* bytes the peers of the connections so far send
RECURSIVE Offered(_)
Offered(ps) ==
    IF ps = <<>> THEN 0
    ELSE Head(ps).dir[1].size + Head(ps).dir[2].size + Offered(Tail(ps))

\* handleLocalForwardConnection: sshClient.Dial; on success forwardData
\* spawns the two copy goroutines, on failure the handler returns.
LocalDialForward(s) ==
    /\ handlers[s]["dial"] > 0
    /\ Ready
    /\ heap[s].Rule.Type = LocalForward
    /\ \/ /\ clients[heap[s].sshClient] = "alive"
          /\ \E avail1, avail2 \in 0 .. MaxBytes :
                /\ Offered(pumps) + avail1 + avail2 <= MaxBytes
                /\ pumps' = Append(pumps, NewPump(s, avail1, avail2))
          /\ Move(s, "dial", "pump")
          /\ UNCHANGED heap
       \/ /\ heap[s].ErrorCount < MaxErr
          /\ heap' = DecrementActiveConnections(
                        IncrementErrors(heap, s, "Failed to connect"), s)
          /\ Leave(s, "dial")
          /\ UNCHANGED pumps
    /\ UNCHANGED <<sessions, sshClients, clients, callers, panicked, socks, auth, tools>>

\* nr, er := src.Read(buf): some of the bytes the source has, the end of the
\* stream once it has none, or an error; only an error on a closed connection.
copyRead(p, d) ==
    /\ pumps[p].dir[d].pc = "read"
    /\ Ready
    /\ LET c == pumps[p].dir[d]
       IN \E nr \in 0 .. c.avail, er \in {"nil", "EOF", "error"} :
             /\ IF pumps[p].joined
                THEN nr = 0 /\ er = "error"
                ELSE \/ nr > 0 /\ er = "nil"
                     \/ nr = 0 /\ er = "EOF" /\ c.avail = 0
                     \/ nr = 0 /\ er = "error"
             /\ pumps' = [pumps EXCEPT ![p].dir[d] =
                    [c EXCEPT !.avail = @ - nr, !.nr = nr,
                              !.pc = IF nr > 0 THEN "write" ELSE "return",
                              !.err = (er = "error")]]
    /\ UNCHANGED <<sessions, heap, handlers, sshClients, clients, callers, panicked,
                   socks, auth, tools>>

\* nw, ew := dst.Write(buf[0:nr]): the destination takes nw of the nr bytes,
\* none on a closed connection.  With nw < nr the copy ends with ew or with
\* io.ErrShortWrite, after the callback when nw > 0.
copyWrite(p, d) ==
    /\ pumps[p].dir[d].pc = "write"
    /\ Ready
    /\ LET c == pumps[p].dir[d]
       IN \E nw \in 0 .. c.nr :
             /\ pumps[p].joined => nw = 0
             /\ pumps' = [pumps EXCEPT ![p].dir[d] =
                    [c EXCEPT !.nw = nw, !.dst = @ + nw,
                              !.pc = IF nw > 0 THEN "stats" ELSE "return",
                              !.nr = IF nw > 0 THEN @ ELSE 0,
                              !.err = (nw < c.nr)]]
    /\ UNCHANGED <<sessions, heap, handlers, sshClients, clients, callers, panicked,
                   socks, auth, tools>>

\* The callback that adds the bytes of the read, not of the write.
statsCallbackOfRead(p, d) ==
    /\ pumps[p].dir[d].pc = "stats"
    /\ Ready
    /\ LET c == pumps[p].dir[d]
           s == pumps[p].s
       IN /\ heap' = IF d = 1 THEN AddBytesSent(heap, s, c.nr)
                             ELSE AddBytesReceived(heap, s, c.nr)
          /\ pumps' = [pumps EXCEPT ![p].dir[d] =
                 [c EXCEPT !.written = @ + c.nr, !.nr = 0, !.nw = 0,
                           !.pc = IF c.err THEN "return" ELSE "read"]]
    /\ UNCHANGED <<sessions, handlers, sshClients, clients, callers, panicked,
                   socks, auth, tools>>

\* if nw > 0 { written += nw; statsCallback(nw) }, then the checks of ew,
\* of nr != nw and of er.
statsCallback(p, d) ==
    /\ pumps[p].dir[d].pc = "stats"
    /\ Ready
    /\ LET c == pumps[p].dir[d]
           s == pumps[p].s
       IN /\ heap' = IF d = 1 THEN AddBytesSent(heap, s, c.nw)
                             ELSE AddBytesReceived(heap, s, c.nw)
          /\ pumps' = [pumps EXCEPT ![p].dir[d] =
                 [c EXCEPT !.written = @ + c.nw, !.nr = 0, !.nw = 0,
                           !.pc = IF c.err THEN "return" ELSE "read"]]
    /\ UNCHANGED <<sessions, handlers, sshClients, clients, callers, panicked,
                   socks, auth, tools>>

\* The same with done := make(chan struct{}): the deferred send waits for
\* the receive in forwardData, of which there is only one.
copyReturnUnbuffered(p, d) ==
    /\ pumps[p].dir[d].pc = "return"
    /\ Ready
    /\ ~pumps[p].joined
    /\ \A e \in Dirs : pumps[p].dir[e].pc # "end"
    /\ heap' = CopyEnds(pumps[p].s, pumps[p].dir[d].err)
    /\ pumps' = [pumps EXCEPT ![p].dir[d].pc = "end"]
    /\ UNCHANGED <<sessions, handlers, sshClients, clients, callers, panicked, socks, auth, tools>>

\* copyWithStats returns to the copy goroutine of forwardData: the error is
\* counted when the session is active, and the deferred send on done runs.
\* After the handler has returned this goroutine is the one left behind.
copyReturn(p, d) ==
    /\ pumps[p].dir[d].pc = "return"
    /\ Ready
    /\ LET c == pumps[p].dir[d]
           s == pumps[p].s
       IN /\ heap' = CopyEnds(s, c.err)
          /\ pumps' = [pumps EXCEPT ![p].dir[d].pc = "end"]
          /\ IF pumps[p].joined THEN Leave(s, "linger") ELSE UNCHANGED handlers
    /\ UNCHANGED <<sessions, sshClients, clients, callers, panicked, socks, auth, tools>>

\* <-done twice: forwardData returns when both directions have ended.
forwardDataJoinWaitsForBoth(p) ==
    /\ ~pumps[p].joined
    /\ Ready
    /\ \A d \in Dirs : pumps[p].dir[d].pc = "end"
    /\ heap' = DecrementActiveConnections(heap, pumps[p].s)
    /\ Leave(pumps[p].s, "pump")
    /\ pumps' = [pumps EXCEPT ![p].joined = TRUE]
    /\ UNCHANGED <<sessions, sshClients, clients, callers, panicked, socks, auth, tools>>

\* <-done in forwardData: one direction has ended, forwardData and the
\* handler return, and the deferred calls close both connections and
\* DecrementActiveConnections.
forwardDataJoin(p) ==
    /\ ~pumps[p].joined
    /\ Ready
    /\ \E d \in Dirs : pumps[p].dir[d].pc = "end"
    /\ LET s == pumps[p].s
       IN /\ heap' = DecrementActiveConnections(heap, s)
          /\ IF \A d \in Dirs : pumps[p].dir[d].pc = "end"
             THEN Leave(s, "pump")
             ELSE Move(s, "pump", "linger")
    /\ pumps' = [pumps EXCEPT ![p].joined = TRUE]
    /\ UNCHANGED <<sessions, sshClients, clients, callers, panicked, socks, auth, tools>>

\* A started Local session whose acceptor has accepted connections and
\* spawned their handlers, none of which has run yet.
InitPump ==
    /\ sessions = [id \in Ids |-> IF id = "a" THEN 1 ELSE 0]
    /\ heap = [s \in Objs |->
          IF s = 1
          THEN [NewSession([ID |-> "a", Type |-> LocalForward]) EXCEPT
                   !.active = 1, !.listener = "open", !.acceptor = "running",
                   !.sshClient = 1]
          ELSE FreeSlot]
    /\ handlers = [s \in Objs |->
          IF s = 1 THEN [NoHandlers EXCEPT !["start"] = MaxPumps] ELSE NoHandlers]
    /\ sshClients = [k \in ClientKeys |-> 1]
    /\ clients = <<"alive">>
    /\ callers = [c \in Callers |-> Idle]
    /\ panicked = FALSE
    /\ cli = NoCli
    /\ store = NoStore
    /\ accept = NoAccept
    /\ ui = NoUi
    /\ pumps = <<>>
    /\ socks = NoSocks
    /\ auth = NoAuth

PumpNext(p) ==
    \/ \E d \in Dirs : copyRead(p, d) \/ copyWrite(p, d) \/ statsCallback(p, d)
                          \/ copyReturn(p, d)
    \/ forwardDataJoin(p)

\* A Local session that serves connections and is stopped, with the copy
\* goroutines of every connection taken one Read, Write and callback at a time.
NextPump ==
    \/ Resume("c1")
    \/ Collect
    \/ StopNext("c1")
    \/ \E s \in Objs : \/ AcceptorNext(s)
                       \/ handleLocalForwardConnection(s)
                       \/ LocalDialForward(s)
    \/ \E p \in DOMAIN pumps : PumpNext(p)

SpecPump == InitPump /\ [][NextPump]_vars

\* The same with peers that never fail: before forwardData has returned no
\* Read gives an error and no Write is short, so that a copy ends on the end
\* of its stream or on the connections the handler has closed.
SpecPumpClean ==
    InitPump /\
    [][NextPump /\ \A p \in DOMAIN pumps, d \in Dirs :
                     pumps'[p].dir[d].err /\ ~pumps[p].dir[d].err => pumps[p].joined]_vars

\* The scheduler runs a goroutine that can take a step; a Read or Write on
\* a connection the handler has closed returns, and a Dial returns.  A Read
\* or Write on an open connection waits for the peer, and a caller need not
\* call at all.  The fairness of the goroutines is strong because their
\* steps are held back while a caller takes the result of a call, and it is
\* stated for the goroutines together, which asks less of the scheduler
\* than fairness for each of them.
FairPump ==
    /\ SpecPump
    /\ SF_vars(\E p \in DOMAIN pumps :
                   \/ forwardDataJoin(p)
                   \/ \E d \in Dirs : \/ statsCallback(p, d)
                                       \/ copyReturn(p, d)
                                       \/ (pumps[p].joined /\ copyRead(p, d))
                                       \/ (pumps[p].joined /\ copyWrite(p, d)))
    /\ SF_vars(\E s \in Objs : \/ AcceptorNext(s)
                                 \/ handleLocalForwardConnection(s)
                                 \/ LocalDialForward(s))
    /\ WF_vars(\/ Resume("c1")
               \/ Collect
               \/ StopCloseListener("c1") \/ StopCloseDone("c1") \/ StopDelete("c1"))

\* ----------------------------------------- createSSHClient, in detail
\* What a createSSHClient call is given: the host record's identity file
\* ("" when it has none), the credential, the file at the identity path and
\* the authentication the server accepts.
Identities == {"", "id_rsa"}

Credentials == {"", "secret", "other"}

\* The file at the identity path: absent, an unprotected key, or a key
\* protected with the passphrase "secret".
KeyFiles == {"absent", "plain", "protected"}

ServerAccepts == {"none", "publickey", "password"}

\* The outcomes of loadPrivateKey: os.ReadFile fails on an absent file; a
\* credential that is not empty is used as the passphrase, and a protected
\* key needs its passphrase.  How the parser treats a passphrase given for
\* an unprotected key is left open.
loadPrivateKey(keyFile, keyPassword) ==
    CASE keyFile = "absent" -> {"error"}
      [] keyFile = "plain" -> IF keyPassword = "" THEN {"signer"} ELSE {"signer", "error"}
      [] keyFile = "protected" -> IF keyPassword = "secret" THEN {"signer"} ELSE {"error"}

\* The entry of createSSHClient: var auth []ssh.AuthMethod
createSSHClientEnter(identity, keyPassword, keyFile, accepts) ==
    [pc |-> "auth", Identity |-> identity, keyPassword |-> keyPassword,
     keyFile |-> keyFile, accepts |-> accepts, Auth |-> <<>>, err |-> ""]

\* if host.Identity != "" { key, err := loadPrivateKey(...); auth = append(auth,
\* ssh.PublicKeys(key)) }; nothing is appended for a host without identity.
createSSHClientAuth ==
    /\ auth # NoAuth
    /\ auth.pc = "auth"
    /\ IF auth.Identity # ""
       THEN \E key \in loadPrivateKey(auth.keyFile, auth.keyPassword) :
               auth' = IF key = "error"
                       THEN [auth EXCEPT !.pc = "done", !.err = "failed to load private key"]
                       ELSE [auth EXCEPT !.pc = "dial", !.Auth = Append(@, "publickey")]
       ELSE auth' = [auth EXCEPT !.pc = "dial"]
    /\ UNCHANGED <<sessions, heap, handlers, sshClients, clients, callers, panicked,
                   pumps, socks, tools>>

\* ssh.Dial with the config: the server lets the client in without
\* authentication, or with a method the config offers.
createSSHClientDial ==
    /\ auth # NoAuth
    /\ auth.pc = "dial"
    /\ auth' = [auth EXCEPT !.pc = "done",
                   !.err = IF auth.accepts = "none"
                              \/ \E i \in DOMAIN auth.Auth : auth.Auth[i] = auth.accepts
                           THEN "" ELSE "failed to connect to SSH server"]
    /\ UNCHANGED <<sessions, heap, handlers, sshClients, clients, callers, panicked,
                   pumps, socks, tools>>

\* The caller takes the result; the next call is made.
createSSHClientAgain ==
    /\ auth # NoAuth
    /\ auth.pc = "done"
    /\ \E identity \in Identities, keyPassword \in Credentials,
          keyFile \in KeyFiles, accepts \in ServerAccepts :
          auth' = createSSHClientEnter(identity, keyPassword, keyFile, accepts)
    /\ UNCHANGED <<sessions, heap, handlers, sshClients, clients, callers, panicked,
                   pumps, socks, tools>>

InitAuth ==
    /\ sessions = [id \in Ids |-> 0]
    /\ heap = [s \in Objs |-> FreeSlot]
    /\ handlers = [s \in Objs |-> NoHandlers]
    /\ sshClients = [k \in ClientKeys |-> 0]
    /\ clients = <<>>
    /\ callers = [c \in Callers |-> Idle]
    /\ panicked = FALSE
    /\ cli = NoCli
    /\ store = NoStore
    /\ accept = NoAccept
    /\ ui = NoUi
    /\ pumps = <<>>
    /\ socks = NoSocks
    /\ \E identity \in Identities, keyPassword \in Credentials,
          keyFile \in KeyFiles, accepts \in ServerAccepts :
          auth = createSSHClientEnter(identity, keyPassword, keyFile, accepts)

NextAuth ==
    \/ createSSHClientAuth
    \/ createSSHClientDial
    \/ createSSHClientAgain

SpecAuth == InitAuth /\ [][NextAuth]_vars

\* ----------------------------------------- socks5Handshake, in detail
\* buf := make([]byte, 256)
BufSize == 256

Min(a, b) == IF a < b THEN a ELSE b

\* Strings are sequences of character codes; fmt's %d of a number that is
\* not negative.
RECURSIVE Decimal(_)
Decimal(n) ==
    IF n < 10 THEN <<48 + n>> ELSE Decimal(n \div 10) \o <<48 + (n % 10)>>

\* "example.com", and a name of len letters "a"
ExampleCom == <<101, 120, 97, 109, 112, 108, 101, 46, 99, 111, 109>>

Filled(len) == [i \in 1 .. len |-> 97]

\* What a client sends first: version, number of methods, methods.
Greetings == {<<5, 1, 0>>, <<5, 2, 0, 2>>, <<4, 1, 0>>, <<5, 1>>}

Domains == {ExampleCom, Filled(249), Filled(250), Filled(255)}

\* Address type and address: IPv4, domain name with its length, IPv6.
Addresses ==
    {<<1, 93, 184, 216, 34>>, <<1, 10, 0, 0, 1>>}
    \cup {<<3, Len(d)>> \o d : d \in Domains}
    \cup {<<4>> \o [i \in 1 .. 16 |-> 0]}

Ports == {<<0, 80>>, <<1, 187>>}

\* Requests: version, command (1 is CONNECT), reserved, address, port; and
\* requests cut short.
FullRequests ==
    {<<ver, cmd, 0>> \o a \o port :
        ver \in {4, 5}, cmd \in {1, 2}, a \in Addresses, port \in Ports}

Requests ==
    FullRequests
    \cup {SubSeq(r, 1, 6) : r \in {q \in FullRequests : q[1] = 5 /\ q[2] = 1}}
    \cup {SubSeq(r, 1, Len(r) - 1) : r \in {q \in FullRequests : q[1] = 5 /\ q[2] = 1}}

\* The segments in which the greeting and the request reach the server:
\* one each, both in one, or the request in two.
Segments(greeting, request) ==
    {<<greeting, request>>, <<greeting \o request>>,
     <<greeting, SubSeq(request, 1, 4), SubSeq(request, 5, Len(request))>>}

\* n, err := conn.Read(buf): the bytes of the next segment that fit the
\* buffer, over what the buffer held; the rest of the segment stays unread.
ReadLen(stream) == IF stream = <<>> THEN 0 ELSE Min(Len(Head(stream)), BufSize)

ReadBuf(buf, stream) ==
    SubSeq(Head(stream), 1, ReadLen(stream)) \o SubSeq(buf, ReadLen(stream) + 1, BufSize)

ReadRest(stream) ==
    IF ReadLen(stream) < Len(Head(stream))
    THEN <<SubSeq(Head(stream), ReadLen(stream) + 1, Len(Head(stream)))>> \o Tail(stream)
    ELSE Tail(stream)

\* A parse that does not look at the command.
socks5TargetAnyCommand(buf, n) ==
    LET b(i) == buf[i + 1]
        failed(err) == [target |-> <<>>, err |-> err]
    IN IF n < 7 \/ b(0) # 5 THEN failed("invalid SOCKS5 request")
       ELSE CASE b(3) = 1 ->
                   IF n < 10 THEN failed("invalid IPv4 address")
                   ELSE [target |-> Decimal(b(4)) \o <<46>> \o Decimal(b(5)) \o <<46>>
                                    \o Decimal(b(6)) \o <<46>> \o Decimal(b(7))
                                    \o <<58>> \o Decimal(b(8) * 256 + b(9)),
                         err |-> ""]
              [] b(3) = 3 ->
                   LET domainLen == b(4)
                   IN IF n < 7 + domainLen THEN failed("incomplete domain name")
                      ELSE [target |-> SubSeq(buf, 6, 5 + domainLen) \o <<58>>
                                       \o Decimal(b(5 + domainLen) * 256 + b(6 + domainLen)),
                            err |-> ""]
              [] OTHER -> failed("unsupported address type")

\* A parse that checks the version and the command and not the length of
\* what was read.
socks5TargetUnchecked(buf, n) ==
    LET b(i) == buf[i + 1]
        failed(err) == [target |-> <<>>, err |-> err]
    IN IF b(0) # 5 \/ b(1) # 1 THEN failed("invalid SOCKS5 request")
       ELSE CASE b(3) = 1 ->
                   [target |-> Decimal(b(4)) \o <<46>> \o Decimal(b(5)) \o <<46>>
                               \o Decimal(b(6)) \o <<46>> \o Decimal(b(7))
                               \o <<58>> \o Decimal(b(8) * 256 + b(9)),
                    err |-> ""]
              [] b(3) = 3 ->
                   LET domainLen == Min(b(4), BufSize - 7)
                   IN [target |-> SubSeq(buf, 6, 5 + domainLen) \o <<58>>
                                  \o Decimal(b(5 + domainLen) * 256 + b(6 + domainLen)),
                       err |-> ""]
              [] OTHER -> failed("unsupported address type")

\* The checks and the parse of socks5Handshake after its second Read; buf is
\* indexed from 0 in the code.
socks5Target(buf, n) ==
    LET b(i) == buf[i + 1]
        failed(err) == [target |-> <<>>, err |-> err]
    IN IF n < 7 \/ b(0) # 5 \/ b(1) # 1 THEN failed("invalid SOCKS5 request")
       ELSE CASE b(3) = 1 ->
                   IF n < 10 THEN failed("invalid IPv4 address")
                   ELSE [target |-> Decimal(b(4)) \o <<46>> \o Decimal(b(5)) \o <<46>>
                                    \o Decimal(b(6)) \o <<46>> \o Decimal(b(7))
                                    \o <<58>> \o Decimal(b(8) * 256 + b(9)),
                         err |-> ""]
              [] b(3) = 3 ->
                   LET domainLen == b(4)
                   IN IF n < 7 + domainLen THEN failed("incomplete domain name")
                      ELSE [target |-> SubSeq(buf, 6, 5 + domainLen) \o <<58>>
                                       \o Decimal(b(5 + domainLen) * 256 + b(6 + domainLen)),
                            err |-> ""]
              [] OTHER -> failed("unsupported address type")

\* The replies handleSOCKS5Connection writes after the dial.
SuccessReply == <<5, 0, 0, 1, 0, 0, 0, 0, 0, 0>>

FailureReply == <<5, 5, 0, 1, 0, 0, 0, 0, 0, 0>>

\* A connection handled by handleSOCKS5Connection of session s: what the
\* client sends (stream: the segments not read yet), the locals of
\* socks5Handshake, and out, the bytes written to the client.
NewSocks(s, greeting, request, stream) ==
    [pc |-> "greeting", s |-> s, greeting |-> greeting, request |-> request,
     stream |-> stream, buf |-> [i \in 1 .. BufSize |-> 0], n |-> 0,
     out |-> <<>>, target |-> <<>>, err |-> "", dialed |-> FALSE]

\* socks5Handshake: the first Read, the version check and the method reply.
socks5Greeting ==
    /\ socks # NoSocks
    /\ socks.pc = "greeting"
    /\ Ready
    /\ LET n == ReadLen(socks.stream)
           buf == IF socks.stream = <<>> THEN socks.buf
                  ELSE ReadBuf(socks.buf, socks.stream)
       IN socks' =
            IF socks.stream = <<>>
            THEN [socks EXCEPT !.pc = "failed", !.err = "EOF"]
            ELSE IF n < 3 \/ buf[1] # 5
            THEN [socks EXCEPT !.pc = "failed", !.err = "unsupported SOCKS version",
                               !.n = n, !.buf = buf, !.stream = ReadRest(socks.stream)]
            ELSE [socks EXCEPT !.pc = "request", !.n = n, !.buf = buf,
                               !.stream = ReadRest(socks.stream),
                               !.out = @ \o <<5, 0>>]
    /\ UNCHANGED <<sessions, heap, handlers, sshClients, clients, callers, panicked,
                   pumps, auth, tools>>

\* socks5Handshake: the second Read and the parse of the request.
socks5Request ==
    /\ socks # NoSocks
    /\ socks.pc = "request"
    /\ Ready
    /\ IF socks.stream = <<>>
       THEN /\ socks' = [socks EXCEPT !.pc = "failed", !.err = "EOF"]
            /\ UNCHANGED handlers
       ELSE LET n == ReadLen(socks.stream)
                buf == ReadBuf(socks.buf, socks.stream)
                r == socks5Target(buf, n)
            IN /\ socks' = [socks EXCEPT !.pc = IF r.err = "" THEN "dial" ELSE "failed",
                                         !.n = n, !.buf = buf,
                                         !.stream = ReadRest(socks.stream),
                                         !.target = r.target, !.err = r.err]
               /\ IF r.err = "" THEN Move(socks.s, "handshake", "dial")
                                ELSE UNCHANGED handlers
    /\ UNCHANGED <<sessions, heap, sshClients, clients, callers, panicked, pumps, auth, tools>>

\* handleSOCKS5Connection: socks5Handshake returned an error: IncrementErrors
\* and return, which closes the connection.
handleSOCKS5Failed ==
    /\ socks # NoSocks
    /\ socks.pc = "failed"
    /\ Ready
    /\ heap' = DecrementActiveConnections(
                  IncrementErrors(heap, socks.s, "SOCKS5 handshake failed"), socks.s)
    /\ Leave(socks.s, "handshake")
    /\ socks' = [socks EXCEPT !.pc = "closed"]
    /\ UNCHANGED <<sessions, sshClients, clients, callers, panicked, pumps, auth, tools>>

\* handleSOCKS5Connection: sshClient.Dial("tcp", targetAddr), and
\* IncrementErrors when it fails.
handleSOCKS5Dial ==
    /\ socks # NoSocks
    /\ socks.pc = "dial"
    /\ Ready
    /\ \/ /\ clients[heap[socks.s].sshClient] = "alive"
          /\ socks' = [socks EXCEPT !.pc = "reply", !.dialed = TRUE]
          /\ UNCHANGED heap
       \/ /\ socks' = [socks EXCEPT !.pc = "reply", !.err = "Failed to connect"]
          /\ heap' = IncrementErrors(heap, socks.s, "Failed to connect")
    /\ UNCHANGED <<sessions, handlers, sshClients, clients, callers, panicked, pumps, auth, tools>>

\* handleSOCKS5Connection that starts the pump after a failed dial too.
handleSOCKS5ReplyAlwaysPumps ==
    /\ socks # NoSocks
    /\ socks.pc = "reply"
    /\ Ready
    /\ socks' = [socks EXCEPT !.pc = "pump",
                    !.out = @ \o (IF socks.dialed THEN SuccessReply ELSE FailureReply)]
    /\ Move(socks.s, "dial", "pump")
    /\ UNCHANGED <<sessions, heap, sshClients, clients, callers, panicked, pumps, auth, tools>>

\* handleSOCKS5Connection: the reply; after a dial that succeeded
\* forwardData starts, after one that failed the handler returns.
handleSOCKS5Reply ==
    /\ socks # NoSocks
    /\ socks.pc = "reply"
    /\ Ready
    /\ IF socks.dialed
       THEN /\ socks' = [socks EXCEPT !.pc = "pump", !.out = @ \o SuccessReply]
            /\ Move(socks.s, "dial", "pump")
            /\ UNCHANGED heap
       ELSE /\ socks' = [socks EXCEPT !.pc = "closed", !.out = @ \o FailureReply]
            /\ Leave(socks.s, "dial")
            /\ heap' = DecrementActiveConnections(heap, socks.s)
    /\ UNCHANGED <<sessions, sshClients, clients, callers, panicked, pumps, auth, tools>>

\* A started Dynamic session with one accepted connection whose handler has
\* run IncrementConnections and enters socks5Handshake; the client's bytes
\* are drawn from the greetings, requests and segmentations above.
InitSocks ==
    /\ sessions = [id \in Ids |-> IF id = "b" THEN 1 ELSE 0]
    /\ heap = [s \in Objs |->
          IF s = 1
          THEN [NewSession([ID |-> "b", Type |-> DynamicForward]) EXCEPT
                   !.active = 1, !.listener = "open", !.acceptor = "running",
                   !.sshClient = 1, !.ConnectionCount = 1, !.ActiveConnections = 1]
          ELSE FreeSlot]
    /\ handlers = [s \in Objs |->
          IF s = 1 THEN [NoHandlers EXCEPT !["handshake"] = 1] ELSE NoHandlers]
    /\ sshClients = [k \in ClientKeys |-> 1]
    /\ clients = <<"alive">>
    /\ callers = [c \in Callers |-> Idle]
    /\ panicked = FALSE
    /\ cli = NoCli
    /\ store = NoStore
    /\ accept = NoAccept
    /\ ui = NoUi
    /\ pumps = <<>>
    /\ auth = NoAuth
    /\ \E greeting \in Greetings, request \in Requests :
          \E stream \in Segments(greeting, request) :
              socks = NewSocks(1, greeting, request, stream)

NextSocks ==
    \/ socks5Greeting
    \/ socks5Request
    \/ handleSOCKS5Failed
    \/ handleSOCKS5Dial
    \/ handleSOCKS5Reply

SpecSocks == InitSocks /\ [][NextSocks]_vars

\* ------------------------------------------ the acceptor loop, in detail
\* The acceptor goroutine of a session, one statement at a time; the three
\* loops differ in that a Remote listener has no accept deadline.  accept.pc: "select" before the select on session.done, "accept"
\* inside listener.Accept(), "error" after Accept has returned an error that
\* is not a timeout, "exited" after the return; accept.err: what the last
\* Accept returned.

\* select with only the default branch: the loop never looks at session.done.
acceptSelectDefaultOnly ==
    /\ accept.pc = "select"
    /\ Ready
    /\ accept' = [accept EXCEPT !.pc = "accept"]
    /\ UNCHANGED <<sessions, heap, handlers, sshClients, clients, callers, panicked,
                   pumps, socks, auth, cli, store, ui>>

\* select { case <-session.done: return; default: SetDeadline(now + 1s) }
acceptSelect ==
    /\ accept.pc = "select"
    /\ Ready
    /\ LET s == accept.s
       IN IF heap[s].done = "closed"
          THEN /\ heap' = [heap EXCEPT ![s].acceptor = "exited", ![s].listener = "closed"]
               /\ accept' = [accept EXCEPT !.pc = "exited"]
          ELSE /\ accept' = [accept EXCEPT !.pc = "accept"]
               /\ UNCHANGED heap
    /\ UNCHANGED <<sessions, handlers, sshClients, clients, callers, panicked,
                   pumps, socks, auth, cli, store, ui>>

\* localConn, err := listener.Accept(): a connection, whose handler goroutine
\* is spawned, the expiry of the deadline where one is set, or another
\* error; on a closed listener only an error.  A timeout continues the loop.
acceptReturns ==
    /\ accept.pc = "accept"
    /\ Ready
    /\ LET s == accept.s
       IN \E err \in {"nil", "timeout", "error"} :
             /\ heap[s].listener = "closed" => err = "error"
             /\ err = "timeout" => HasTimeout(s)
             /\ err = "nil" => Accepted < MaxConns
             /\ err = "error" /\ IsActive(s) => heap[s].ErrorCount < MaxErr
             /\ handlers' = IF err = "nil"
                            THEN [handlers EXCEPT ![s]["start"] = @ + 1]
                            ELSE handlers
             /\ accept' = [accept EXCEPT !.err = err,
                               !.pc = IF err = "error" THEN "error" ELSE "select"]
    /\ UNCHANGED <<sessions, heap, sshClients, clients, callers, panicked,
                   pumps, socks, auth, cli, store, ui>>

\* if session.IsActive() { session.IncrementErrors(...) }; continue, whatever
\* the session's state.
acceptCountErrorAlways ==
    /\ accept.pc = "error"
    /\ Ready
    /\ heap' = IncrementErrors(heap, accept.s, "Accept error")
    /\ accept' = [accept EXCEPT !.pc = "select"]
    /\ UNCHANGED <<sessions, handlers, sshClients, clients, callers, panicked,
                   pumps, socks, auth, cli, store, ui>>

\* if session.IsActive() { session.IncrementErrors(...) }; continue
acceptCountError ==
    /\ accept.pc = "error"
    /\ Ready
    /\ heap' = IF IsActive(accept.s)
               THEN IncrementErrors(heap, accept.s, "Accept error")
               ELSE heap
    /\ accept' = [accept EXCEPT !.pc = "select"]
    /\ UNCHANGED <<sessions, handlers, sshClients, clients, callers, panicked,
                   pumps, socks, auth, cli, store, ui>>

\* A started session "a", of any type, whose acceptor enters its loop.
InitAccept ==
    /\ sessions = [id \in Ids |-> IF id = "a" THEN 1 ELSE 0]
    /\ \E type \in ForwardingTypes :
          heap = [s \in Objs |->
             IF s = 1
             THEN [NewSession([ID |-> "a", Type |-> type]) EXCEPT
                      !.active = 1, !.listener = "open", !.acceptor = "running",
                      !.sshClient = 1]
             ELSE FreeSlot]
    /\ handlers = [s \in Objs |-> NoHandlers]
    /\ sshClients = [k \in ClientKeys |-> 1]
    /\ clients = <<"alive">>
    /\ callers = [c \in Callers |-> Idle]
    /\ panicked = FALSE
    /\ pumps = <<>>
    /\ socks = NoSocks
    /\ auth = NoAuth
    /\ cli = NoCli
    /\ store = NoStore
    /\ accept = [s |-> 1, pc |-> "select", err |-> "nil"]
    /\ ui = NoUi

\* The acceptor of a session that one caller stops at some moment.
NextAccept ==
    \/ Resume("c1")
    \/ Collect
    \/ StopNext("c1")
    \/ acceptSelect
    \/ acceptReturns
    \/ acceptCountError

SpecAccept == InitAccept /\ [][NextAccept]_vars

\* The scheduler runs every goroutine that can take a step, and Accept
\* returns: on a Local or Dynamic listener within its deadline, on a closed
\* listener at once.  An open Remote listener may wait for ever, and a
\* caller need not call at all.  The acceptor's fairness is strong because
\* its steps are held back while a caller takes the result of a call, which
\* a caller can do again and again; the goroutine itself is never held back.
FairAccept ==
    /\ SpecAccept
    /\ SF_vars(acceptSelect)
    /\ SF_vars(acceptReturns
                 /\ (HasTimeout(accept.s) \/ heap[accept.s].listener = "closed"))
    /\ SF_vars(acceptCountError)
    /\ WF_vars(Resume("c1"))
    /\ WF_vars(Collect)
    /\ WF_vars(StopCloseListener("c1") \/ StopCloseDone("c1") \/ StopDelete("c1"))

\* ------------------------------------------ the command line, in detail
\* Text is a sequence of characters.  A rule string given to -f is made of
\* at most MaxParts pieces joined by ":" ; a piece with colons in it makes a
\* string of more parts than pieces.
MaxParts == 4

Pieces ==
    {<<"D">>, <<"d">>, <<"R">>, <<"8", "0">>, <<"8", "1">>, <<"4", "4", "3">>,
     <<"-", "1">>, <<"+", "8">>, <<"h">>, <<>>, <<"[", ":", ":", "1", "]">>}

RECURSIVE Join(_)
Join(parts) ==
    IF Len(parts) = 1 THEN parts[1]
    ELSE parts[1] \o <<":">> \o Join(Tail(parts))

RuleStrings ==
    {Join(parts) : parts \in UNION {[1 .. n -> Pieces] : n \in 1 .. MaxParts}}

\* strings.Split(s, ":")
RECURSIVE Split(_)
Split(s) ==
    IF \A i \in 1 .. Len(s) : s[i] # ":" THEN <<s>>
    ELSE LET i == CHOOSE j \in 1 .. Len(s) :
                     s[j] = ":" /\ \A k \in 1 .. j - 1 : s[k] # ":"
         IN <<SubSeq(s, 1, i - 1)>> \o Split(SubSeq(s, i + 1, Len(s)))

\* A conversion that leaves lower case alone.
ToUpperNot(s) == s

\* strings.ToUpper, on the letters of the pieces
ToUpper(s) ==
    [i \in 1 .. Len(s) |->
        CASE s[i] = "d" -> "D" [] s[i] = "r" -> "R" [] s[i] = "h" -> "H" [] OTHER -> s[i]]

\* strconv.Atoi: an optional sign and one or more decimal digits.
Atoi(s) ==
    LET digits == <<"0", "1", "2", "3", "4", "5", "6", "7", "8", "9">>
        signed == s # <<>> /\ s[1] \in {"+", "-"}
        ds == IF signed THEN Tail(s) ELSE s
        digit(c) == (CHOOSE d \in 1 .. 10 : digits[d] = c) - 1
        val[i \in 0 .. Len(ds)] == IF i = 0 THEN 0 ELSE val[i - 1] * 10 + digit(ds[i])
    IN IF ds = <<>> \/ \E i \in 1 .. Len(ds) : \A d \in 1 .. 10 : digits[d] # ds[i]
       THEN [n |-> 0, ok |-> FALSE]
       ELSE [n |-> IF s[1] = "-" THEN 0 - val[Len(ds)] ELSE val[Len(ds)], ok |-> TRUE]

\* The nil *ForwardingRule.
NilRule == <<>>

\* parseForwardingRule(ruleStr): the rule, nil on error, and the error.
\* Type, ports and RemoteHost of the rule start as zero values.
parseForwardingRule(ruleStr) ==
    LET parts == Split(ruleStr)
        rule == [ID |-> <<"cli-", Len(ruleStr)>>, Type |-> LocalForward,
                 LocalHost |-> "", LocalPort |-> 0, RemoteHost |-> <<>>, RemotePort |-> 0]
        failed(err) == [rule |-> NilRule, err |-> err]
    IN IF Len(parts) = 2 /\ ToUpper(parts[1]) = <<"D">>
       THEN IF ~Atoi(parts[2]).ok THEN failed("invalid port number")
            ELSE [rule |-> [rule EXCEPT !.Type = DynamicForward, !.LocalHost = "localhost",
                                        !.LocalPort = Atoi(parts[2]).n],
                  err |-> ""]
       ELSE IF Len(parts) = 4 /\ ToUpper(parts[1]) = <<"R">>
       THEN IF ~Atoi(parts[2]).ok THEN failed("invalid local port")
            ELSE IF ~Atoi(parts[4]).ok THEN failed("invalid remote port")
            ELSE [rule |-> [rule EXCEPT !.Type = RemoteForward, !.LocalHost = "localhost",
                                        !.LocalPort = Atoi(parts[2]).n,
                                        !.RemoteHost = parts[3],
                                        !.RemotePort = Atoi(parts[4]).n],
                  err |-> ""]
       ELSE IF Len(parts) = 3
       THEN IF ~Atoi(parts[1]).ok THEN failed("invalid local port")
            ELSE IF ~Atoi(parts[3]).ok THEN failed("invalid remote port")
            ELSE [rule |-> [rule EXCEPT !.Type = LocalForward, !.LocalHost = "localhost",
                                        !.LocalPort = Atoi(parts[1]).n,
                                        !.RemoteHost = parts[2],
                                        !.RemotePort = Atoi(parts[3]).n],
                  err |-> ""]
       ELSE failed("invalid forwarding rule format")

\* ParseArgs on "-f ruleStr": the rule is parsed, and an error ends the run.
ParseArgs ==
    /\ cli # NoCli
    /\ cli.pc = "args"
    /\ LET r == parseForwardingRule(cli.ruleStr)
       IN cli' = [cli EXCEPT !.pc = IF r.err = "" THEN "parsed" ELSE "failed",
                             !.rule = r.rule, !.err = r.err]
    /\ UNCHANGED <<sessions, heap, handlers, sshClients, clients, callers, panicked,
                   pumps, socks, auth, store, accept, ui>>

\* A later run of the program with another rule string.
ParseArgsAgain ==
    /\ cli # NoCli
    /\ cli.pc = "parsed"
    /\ \E port \in {<<"8", "0">>, <<"8", "1">>, <<"4", "4", "3">>} :
          LET other == Join(<<<<"D">>, port>>)
              r == parseForwardingRule(other)
          IN /\ other # cli.ruleStr
             /\ cli' = [cli EXCEPT !.pc = "again", !.other = other, !.rule2 = r.rule]
    /\ UNCHANGED <<sessions, heap, handlers, sshClients, clients, callers, panicked,
                   pumps, socks, auth, store, accept, ui>>

InitCli ==
    /\ sessions = [id \in Ids |-> 0]
    /\ heap = [s \in Objs |-> FreeSlot]
    /\ handlers = [s \in Objs |-> NoHandlers]
    /\ sshClients = [k \in ClientKeys |-> 0]
    /\ clients = <<>>
    /\ callers = [c \in Callers |-> Idle]
    /\ panicked = FALSE
    /\ pumps = <<>>
    /\ socks = NoSocks
    /\ auth = NoAuth
    /\ store = NoStore
    /\ accept = NoAccept
    /\ ui = NoUi
    /\ \E ruleStr \in RuleStrings :
          cli = [pc |-> "args", ruleStr |-> ruleStr, rule |-> NilRule, err |-> "",
                 other |-> <<>>, rule2 |-> NilRule]

NextCli ==
    \/ ParseArgs
    \/ ParseArgsAgain

SpecCli == InitCli /\ [][NextCli]_vars

\* ------------------------------- the forwarding commands, in detail
\* NewManager(): a manager with an empty registry and an empty pool.
NewManager ==
    [sessions |-> [id \in Ids |-> 0], sshClients |-> [k \in ClientKeys |-> 0]]

\* ParseArgs on "--list-forwarding" and on "--stop-forwarding ID", in a run
\* of the program of its own.
ParseArgsCommand ==
    /\ cli # NoCli
    /\ cli.pc = "args"
    /\ Ready
    /\ \E cmd \in {"--list-forwarding", "--stop-forwarding"}, id \in Ids :
          cli' = [cli EXCEPT !.pc = cmd, !.id = IF cmd = "--stop-forwarding" THEN id ELSE ""]
    /\ UNCHANGED <<sessions, heap, handlers, sshClients, clients, callers, panicked,
                   pumps, socks, auth, store, accept, ui>>

\* listActiveForwarding: the sessions of a manager made for the command.
listActiveForwarding ==
    /\ cli # NoCli
    /\ cli.pc = "--list-forwarding"
    /\ Ready
    /\ LET manager == NewManager
       IN cli' = [cli EXCEPT !.pc = "done",
                             !.listed = {id \in Ids : manager.sessions[id] # 0}]
    /\ UNCHANGED <<sessions, heap, handlers, sshClients, clients, callers, panicked,
                   pumps, socks, auth, store, accept, ui>>

\* stopForwardingSession: GetSession and StopForwarding on a manager made
\* for the command.
stopForwardingSession ==
    /\ cli # NoCli
    /\ cli.pc = "--stop-forwarding"
    /\ Ready
    /\ LET manager == NewManager
       IN cli' = [cli EXCEPT !.pc = "done",
                             !.err = IF manager.sessions[cli.id] = 0
                                     THEN "forwarding session not found" ELSE "",
                             !.stopped = IF manager.sessions[cli.id] = 0
                                         THEN {} ELSE {cli.id}]
    /\ UNCHANGED <<sessions, heap, handlers, sshClients, clients, callers, panicked,
                   pumps, socks, auth, store, accept, ui>>

\* The next run of the program.
mainReturns ==
    /\ cli # NoCli
    /\ cli.pc = "done"
    /\ Ready
    /\ cli' = [pc |-> "args", id |-> "", err |-> "", listed |-> {}, stopped |-> {}]
    /\ UNCHANGED <<sessions, heap, handlers, sshClients, clients, callers, panicked,
                   pumps, socks, auth, store, accept, ui>>

\* A run of "xssh -f rule host" has started the Local session "a" and waits
\* for its interrupt; no command has been given yet.
InitCmd ==
    /\ sessions = [id \in Ids |-> IF id = "a" THEN 1 ELSE 0]
    /\ heap = [s \in Objs |->
          IF s = 1
          THEN [NewSession([ID |-> "a", Type |-> LocalForward]) EXCEPT
                   !.active = 1, !.listener = "open", !.acceptor = "running",
                   !.sshClient = 1]
          ELSE FreeSlot]
    /\ handlers = [s \in Objs |-> NoHandlers]
    /\ sshClients = [k \in ClientKeys |-> 1]
    /\ clients = <<"alive">>
    /\ callers = [c \in Callers |-> Idle]
    /\ panicked = FALSE
    /\ pumps = <<>>
    /\ socks = NoSocks
    /\ auth = NoAuth
    /\ store = NoStore
    /\ accept = NoAccept
    /\ ui = NoUi
    /\ cli = [pc |-> "args", id |-> "", err |-> "", listed |-> {}, stopped |-> {}]

\* The forwarding run serves connections and is stopped by its interrupt
\* (handlePortForwarding: manager.StopForwarding(rule.ID)) while commands
\* are given in runs of their own.
NextCmd ==
    \/ ParseArgsCommand
    \/ listActiveForwarding
    \/ stopForwardingSession
    \/ mainReturns
    \/ Resume("c1")
    \/ Collect
    \/ StopNext("c1")
    \/ \E s \in Objs : \/ AcceptorNext(s)
                       \/ AcceptConn(s)
                       \/ handleLocalForwardConnection(s)
                       \/ LocalDial(s)
                       \/ forwardData(s)
                       \/ copyWithStats(s)

SpecCmd == InitCmd /\ [][NextCmd]_vars

\* ----------------------------------- the host configuration, in detail
\* A line of ~/.ssh/config, trimmed: a keyword and its argument, a comment
\* (keyword "#") or an empty line (keyword "").  A file has at most
\* MaxLines lines.
MaxLines == 4

Line(key, value) == [key |-> key, value |-> value]

Lines ==
    {Line("Host", "web"), Line("Host", "db"), Line("HostName", "10.0.0.1"),
     Line("User", "root"), Line("Port", "22"), Line("Port", "2222"),
     Line("IdentityFile", "id_rsa"), Line("ProxyJump", "gw"), Line("#", "note")}

Files == UNION {[1 .. n -> Lines] : n \in 0 .. MaxLines}

\* LoadSSHConfig: the scan of the lines.  hosts: config.Hosts so far;
\* current: *currentHost, <<>> while it is nil.
RECURSIVE LoadSSHConfigScan(_, _, _)
LoadSSHConfigScan(lines, hosts, current) ==
    IF lines = <<>>
    THEN IF current # <<>> THEN hosts \o current ELSE hosts
    ELSE LET line == Head(lines)
             rest == Tail(lines)
         IN IF line.key \in {"", "#"} THEN LoadSSHConfigScan(rest, hosts, current)
            ELSE IF line.key = "Host"
            THEN LoadSSHConfigScan(rest,
                     IF current # <<>> THEN hosts \o current ELSE hosts,
                     <<[Name |-> line.value, Host |-> line.value, User |-> "",
                        Port |-> "22", Identity |-> ""]>>)
            ELSE IF current # <<>>
            THEN LoadSSHConfigScan(rest, hosts,
                     CASE line.key = "HostName" -> <<[current[1] EXCEPT !.Host = line.value]>>
                       [] line.key = "User" -> <<[current[1] EXCEPT !.User = line.value]>>
                       [] line.key = "Port" -> <<[current[1] EXCEPT !.Port = line.value]>>
                       [] line.key = "IdentityFile" ->
                              <<[current[1] EXCEPT !.Identity = line.value]>>
                       [] OTHER -> current)
            ELSE LoadSSHConfigScan(rest, hosts, current)

\* SSHConfig.Save: the lines written for the hosts.
RECURSIVE SaveLines(_)
SaveLines(hosts) ==
    IF hosts = <<>> THEN <<>>
    ELSE LET host == Head(hosts)
         IN <<Line("Host", host.Name), Line("HostName", host.Host)>>
            \o (IF host.User # "" THEN <<Line("User", host.User)>> ELSE <<>>)
            \o (IF host.Port # "22" /\ host.Port # "" THEN <<Line("Port", host.Port)>>
                 ELSE <<>>)
            \o (IF host.Identity # "" THEN <<Line("IdentityFile", host.Identity)>>
                 ELSE <<>>)
            \o <<Line("", "")>>
            \o SaveLines(Tail(hosts))

\* LoadSSHConfig() of the file as it is.
LoadSSHConfig ==
    /\ store # NoStore
    /\ store.pc \in {"file", "saved"}
    /\ store' = [store EXCEPT !.pc = "loaded",
                              !.Hosts = LoadSSHConfigScan(store.file, <<>>, <<>>)]
    /\ UNCHANGED <<sessions, heap, handlers, sshClients, clients, callers, panicked,
                   pumps, socks, auth, cli, accept, ui>>

\* c.AddHost(host): the host is put first.
AddHost ==
    /\ store # NoStore
    /\ store.pc = "loaded" /\ store.edit = ""
    /\ LET host == [Name |-> "new", Host |-> "10.0.0.2", User |-> "", Port |-> "22",
                    Identity |-> ""]
       IN store' = [store EXCEPT !.Hosts = <<host>> \o @, !.edit = "new"]
    /\ UNCHANGED <<sessions, heap, handlers, sshClients, clients, callers, panicked,
                   pumps, socks, auth, cli, accept, ui>>

\* c.RemoveHost(name): the first host of that name is removed.
RemoveHost ==
    /\ store # NoStore
    /\ store.pc = "loaded" /\ store.edit = ""
    /\ \E name \in {"web", "db"} :
          LET found == {i \in 1 .. Len(store.Hosts) : store.Hosts[i].Name = name}
              i == CHOOSE j \in found : \A k \in found : j <= k
          IN store' = [store EXCEPT
                 !.Hosts = IF found = {} THEN @
                           ELSE SubSeq(@, 1, i - 1) \o SubSeq(@, i + 1, Len(@)),
                 !.edit = name]
    /\ UNCHANGED <<sessions, heap, handlers, sshClients, clients, callers, panicked,
                   pumps, socks, auth, cli, accept, ui>>

\* c.Save(): the file is created anew and the hosts are written.
Save ==
    /\ store # NoStore
    /\ store.pc = "loaded"
    /\ store' = [store EXCEPT !.pc = "saved", !.file = SaveLines(store.Hosts)]
    /\ UNCHANGED <<sessions, heap, handlers, sshClients, clients, callers, panicked,
                   pumps, socks, auth, cli, accept, ui>>

\* A configuration file that the program has not read yet.  original: the
\* file as it was; edit: the name of the host added or removed since.
InitStore ==
    /\ sessions = [id \in Ids |-> 0]
    /\ heap = [s \in Objs |-> FreeSlot]
    /\ handlers = [s \in Objs |-> NoHandlers]
    /\ sshClients = [k \in ClientKeys |-> 0]
    /\ clients = <<>>
    /\ callers = [c \in Callers |-> Idle]
    /\ panicked = FALSE
    /\ pumps = <<>>
    /\ socks = NoSocks
    /\ auth = NoAuth
    /\ cli = NoCli
    /\ accept = NoAccept
    /\ ui = NoUi
    /\ \E file \in Files :
          store = [pc |-> "file", file |-> file, original |-> file, Hosts |-> <<>>,
                   edit |-> ""]

NextStore ==
    \/ LoadSSHConfig
    \/ AddHost
    \/ RemoveHost
    \/ Save

SpecStore == InitStore /\ [][NextStore]_vars

\* ------------------------------------- the interactive program, in detail
\* The Model of the terminal program and its Update handlers.  A text
\* field is a sequence of characters of at most MaxText characters, a
\* host is its alias and its address, and sshConfig.Hosts has at most
\* MaxHosts hosts.  message, showHelp, the window size and the text of
\* the user, port, password and description fields decide nothing below
\* and are left out.
MaxHosts == 3

MaxText == 1

MaxTests == 1

\* The printable keys: len(msg.String()) == 1 between " " and "~".
Printable == {"p", "q", "Q", "a", "e", "d", "f", "l", "s", "y", "n", "1", "2", "3", "8",
              ":"}

SSHHost(name, host, identity) == [Name |-> name, Host |-> host, Identity |-> identity]

\* FormData{Port: "22", AuthType: AuthPassword}, and the zero value of the
\* fields of the forwarding form.
NewFormData ==
    [Host |-> <<>>, Alias |-> <<>>, AuthType |-> "password", Identity |-> "",
     LocalPort |-> <<>>, RemoteHost |-> <<>>, RemotePort |-> <<>>,
     UseExistingHost |-> FALSE, SelectedRemoteHostIndex |-> 0]

\* NewModel() on the hosts that LoadSSHConfig returned.  pc: "keys" while
\* the program waits for a message, "call" inside a call of the manager
\* (op, rule), "quit" after tea.Quit, "panic" after an index out of
\* range.  shared: m.hosts has the backing array of sshConfig.Hosts;
\* fshared: m.filteredHosts is the slice m.hosts.  tests: connection tests
\* whose result message is outstanding.  rendered: the ids of the sessions
\* in the order the forwarding list was drawn in.  flow and before record
\* the key that opened the host form ("a" or "e") and sshConfig.Hosts at
\* that moment.
NewModel(hosts) ==
    [pc |-> "keys", op |-> "", rule |-> NoRule,
     sshConfig |-> hosts, hosts |-> hosts, filteredHosts |-> hosts,
     shared |-> TRUE, fshared |-> TRUE,
     cursor |-> 0, searchMode |-> FALSE, filterQuery |-> <<>>,
     viewMode |-> "ModeList", formData |-> NewFormData, currentField |-> "FieldHost",
     editIndex |-> -1, keyFiles |-> 0, isSetupDone |-> FALSE, tests |-> 0,
     forwardingType |-> LocalForward, selectedHostIndex |-> -1,
     flow |-> "", before |-> <<>>, rendered |-> <<>>]

\* strings.ToLower, on the characters of a text
ToLower(s) ==
    [i \in 1 .. Len(s) |-> CASE s[i] = "Q" -> "q" [] s[i] = "P" -> "p" [] OTHER -> s[i]]

\* strings.Contains
Contains(s, sub) ==
    \E i \in 0 .. Len(s) - Len(sub) : SubSeq(s, i + 1, i + Len(sub)) = sub

\* View(): the forwarding list draws the sessions in the order that
\* GetAllSessions returns, which is the order of a Range over the registry.
View(m) ==
    {[m EXCEPT !.rendered = o] :
        o \in IF m.pc = "keys" /\ m.viewMode = "ModeForwardingList"
              THEN Orders({id \in Ids : sessions[id] # 0})
              ELSE {<<>>}}

\* A message is delivered to Update, which runs to its return without a
\* call of the forwarding manager, and the view is drawn again.
Update(m) ==
    /\ ui' \in View(m)
    /\ UNCHANGED <<sessions, heap, handlers, sshClients, clients, callers, panicked,
                   pumps, socks, auth, cli, store, accept>>

\* Update dispatches a key to the handler of the view mode.
KeyIn(mode) == ui # NoUi /\ ui.pc = "keys" /\ ui.viewMode = mode /\ Ready

\* m.filteredHosts[m.cursor] and m.hosts[i]: an index out of range panics.
Indexed(m, hosts, i, then) ==
    IF i >= 0 /\ i < Len(hosts) THEN then ELSE [m EXCEPT !.pc = "panic"]

\* filterHosts: the hosts whose name or address contains the query,
\* whatever the case; the cursor goes to the top.
filterHosts(m) ==
    IF m.filterQuery = <<>>
    THEN [m EXCEPT !.filteredHosts = m.hosts, !.fshared = TRUE, !.cursor = 0]
    ELSE LET query == ToLower(m.filterQuery)
             match(host) == \/ Contains(ToLower(host.Name), query)
                            \/ Contains(ToLower(host.Host), query)
         IN [m EXCEPT !.filteredHosts = SelectSeq(m.hosts, match), !.fshared = FALSE,
                      !.cursor = 0]

\* findHostIndex: the first index of the name in m.hosts, or -1.
findHostIndex(m, name) ==
    LET found == {i \in 1 .. Len(m.hosts) : m.hosts[i].Name = name}
    IN IF found = {} THEN -1 ELSE (CHOOSE i \in found : \A j \in found : i <= j) - 1

handleSearchMode(key) ==
    /\ KeyIn("ModeList")
    /\ ui.searchMode
    /\ key \in Printable => Len(ui.filterQuery) < MaxText
    /\ Update(CASE key \in {"esc", "enter"} -> [ui EXCEPT !.searchMode = FALSE]
                [] key = "backspace" ->
                     IF Len(ui.filterQuery) > 0
                     THEN filterHosts([ui EXCEPT !.filterQuery =
                                          SubSeq(@, 1, Len(@) - 1)])
                     ELSE ui
                [] key = "ctrl+c" -> [ui EXCEPT !.pc = "quit"]
                [] key \in Printable ->
                     filterHosts([ui EXCEPT !.filterQuery = Append(@, key)])
                [] OTHER -> ui)

handleListMode(key) ==
    /\ KeyIn("ModeList")
    /\ ~ui.searchMode
    /\ LET n == Len(ui.filteredHosts)
           host == ui.filteredHosts[ui.cursor + 1]
       IN Update(
            CASE key \in {"ctrl+c", "q"} -> [ui EXCEPT !.pc = "quit"]
              [] key \in {"up", "k"} -> IF ui.cursor > 0 THEN [ui EXCEPT !.cursor = @ - 1]
                                        ELSE ui
              [] key \in {"down", "j"} -> IF ui.cursor < n - 1
                                          THEN [ui EXCEPT !.cursor = @ + 1] ELSE ui
              [] key = ":" -> [ui EXCEPT !.searchMode = TRUE]
              [] key = "a" ->
                   [ui EXCEPT !.viewMode = "ModeAdd", !.formData = NewFormData,
                              !.currentField = "FieldHost",
                              !.flow = "a", !.before = ui.sshConfig]
              [] key = "e" ->
                   IF n > 0
                   THEN Indexed(ui, ui.filteredHosts, ui.cursor,
                          [ui EXCEPT !.viewMode = "ModeEdit",
                                     !.editIndex = findHostIndex(ui, host.Name),
                                     !.formData = [NewFormData EXCEPT
                                         !.Host = host.Host,
                                         !.Alias = host.Name,
                                         !.Identity = host.Identity,
                                         !.AuthType = IF host.Identity # "" THEN "key"
                                                      ELSE "password"],
                                     !.currentField = "FieldHost",
                                     !.flow = "e", !.before = ui.sshConfig])
                   ELSE ui
              [] key = "d" ->
                   IF n > 0 THEN [ui EXCEPT !.viewMode = "ModeDelete", !.flow = ""]
                   ELSE ui
              [] key = "f" ->
                   IF n > 0
                   THEN [ui EXCEPT !.selectedHostIndex = ui.cursor,
                                   !.viewMode = "ModeForwardingSelect"]
                   ELSE ui
              [] key \in {"enter", "c"} ->
                   IF n > 0
                   THEN Indexed(ui, ui.filteredHosts, ui.cursor,
                                IF key = "enter" THEN [ui EXCEPT !.pc = "quit"] ELSE ui)
                   ELSE ui
              [] key = "esc" ->
                   [ui EXCEPT !.filterQuery = <<>>, !.filteredHosts = ui.hosts,
                              !.fshared = TRUE, !.cursor = 0]
              [] OTHER -> ui)

\* startConnectionTest: the test runs beside the program and its result
\* comes back as a message.
startConnectionTest(m) ==
    [m EXCEPT !.viewMode = "ModeConnectTest", !.isSetupDone = FALSE, !.tests = @ + 1]

\* The form is shown again: ModeAdd, or ModeEdit when editIndex is set.
BackToForm(m, field) ==
    [m EXCEPT !.viewMode = IF m.editIndex >= 0 THEN "ModeEdit" ELSE "ModeAdd",
              !.currentField = field]

\* The text of the field that has the input, after a key.
Typed(text, key) ==
    IF key = "backspace" THEN (IF Len(text) > 0 THEN SubSeq(text, 1, Len(text) - 1) ELSE text)
    ELSE Append(text, key)

handleFormMode(key) ==
    /\ ui # NoUi
    /\ ui.viewMode \in {"ModeAdd", "ModeEdit"}
    /\ KeyIn(ui.viewMode)
    /\ key \in Printable =>
          /\ ui.currentField = "FieldHost" => Len(ui.formData.Host) < MaxText
          /\ ui.currentField = "FieldAlias" => Len(ui.formData.Alias) < MaxText
    /\ ui.tests = MaxTests =>
          ~(ui.currentField = "FieldAlias" /\ key \in {"tab", "down", "enter"})
    /\ LET next ==
              CASE ui.currentField = "FieldHost" -> [ui EXCEPT !.currentField = "FieldUser"]
                [] ui.currentField = "FieldUser" -> [ui EXCEPT !.currentField = "FieldPort"]
                [] ui.currentField = "FieldPort" -> [ui EXCEPT !.viewMode = "ModeAuthSelect"]
                [] ui.currentField = "FieldAlias" ->
                     IF ui.formData.AuthType = "password"
                     THEN [ui EXCEPT !.currentField = "FieldPassword",
                                     !.viewMode = "ModePasswordInput"]
                     ELSE startConnectionTest(ui)
                [] OTHER -> ui
       IN Update(
            CASE key = "esc" -> [ui EXCEPT !.viewMode = "ModeList"]
              [] key \in {"tab", "down", "enter"} -> next
              [] key \in {"shift+tab", "up"} ->
                   CASE ui.currentField = "FieldUser" ->
                          [ui EXCEPT !.currentField = "FieldHost"]
                     [] ui.currentField = "FieldPort" ->
                          [ui EXCEPT !.currentField = "FieldUser"]
                     [] ui.currentField = "FieldAlias" ->
                          [ui EXCEPT !.currentField = "FieldPort"]
                     [] OTHER -> ui
              [] key = "backspace" \/ key \in Printable ->
                   CASE ui.currentField = "FieldHost" ->
                          [ui EXCEPT !.formData.Host = Typed(@, key)]
                     [] ui.currentField = "FieldAlias" ->
                          [ui EXCEPT !.formData.Alias = Typed(@, key)]
                     [] OTHER -> ui
              [] OTHER -> ui)

\* keys: the number of private keys that loadSSHKeys finds in ~/.ssh.
handleAuthSelectMode(key, keys) ==
    /\ KeyIn("ModeAuthSelect")
    /\ Update(
         CASE key = "esc" -> BackToForm(ui, "FieldPort")
           [] key = "1" ->
                BackToForm([ui EXCEPT !.formData.AuthType = "password",
                                      !.formData.Identity = ""], "FieldAlias")
           [] key = "2" ->
                LET m == [ui EXCEPT !.formData.AuthType = "key", !.keyFiles = keys]
                IN IF keys > 0 THEN [m EXCEPT !.viewMode = "ModeKeySelect"]
                   ELSE BackToForm(m, m.currentField)
           [] OTHER -> ui)

\* encrypted: what checkKeyNeedsPassword finds in the key file.
handleKeySelectMode(key, encrypted) ==
    /\ KeyIn("ModeKeySelect")
    /\ Update(
         CASE key = "esc" -> [ui EXCEPT !.viewMode = "ModeAuthSelect"]
           [] key = "enter" ->
                IF ui.keyFiles > 0
                THEN LET m == [ui EXCEPT !.formData.Identity = "key"]
                     IN IF encrypted THEN [m EXCEPT !.viewMode = "ModeKeyPasswordInput"]
                        ELSE BackToForm(m, "FieldAlias")
                ELSE ui
           [] OTHER -> ui)

handleKeyPasswordInputMode(key) ==
    /\ KeyIn("ModeKeyPasswordInput")
    /\ Update(
         CASE key = "esc" -> [ui EXCEPT !.viewMode = "ModeKeySelect"]
           [] key = "enter" -> BackToForm(ui, "FieldAlias")
           [] OTHER -> ui)

handlePasswordInputMode(key) ==
    /\ KeyIn("ModePasswordInput")
    /\ key = "enter" => ui.tests < MaxTests
    /\ Update(
         CASE key = "esc" -> BackToForm(ui, "FieldAlias")
           [] key = "enter" -> startConnectionTest(ui)
           [] OTHER -> ui)

\* Update on the string message of a connection test.
connectionResult(success) ==
    /\ ui # NoUi
    /\ ui.pc = "keys"
    /\ Ready
    /\ ui.tests > 0
    /\ Update([ui EXCEPT !.tests = @ - 1,
                         !.isSetupDone = IF success THEN TRUE ELSE @])

\* c.RemoveHost(name) in the Model: sshConfig.Hosts loses the first host of
\* that name.  The hosts behind it are moved down by one place in the
\* backing array, which the slices on that array see.
RemoveHostIn(m, name) ==
    LET found == {i \in 1 .. Len(m.sshConfig) : m.sshConfig[i].Name = name}
        i == CHOOSE j \in found : \A k \in found : j <= k
        shifted == [j \in 1 .. Len(m.hosts) |->
                       IF i <= j /\ j < Len(m.sshConfig) THEN m.hosts[j + 1]
                       ELSE m.hosts[j]]
    IN IF found = {} THEN m
       ELSE [m EXCEPT !.sshConfig = SubSeq(@, 1, i - 1) \o SubSeq(@, i + 1, Len(@)),
                      !.hosts = IF m.shared THEN shifted ELSE @,
                      !.filteredHosts = IF m.shared /\ m.fshared THEN shifted ELSE @]

\* c.AddHost(host): the host is put first, in a slice of its own.
AddHostIn(m, host) ==
    [m EXCEPT !.sshConfig = <<host>> \o @, !.shared = FALSE]

\* m.hosts = m.sshConfig.Hosts; m.filteredHosts = m.hosts
Reload(m) ==
    [m EXCEPT !.hosts = m.sshConfig, !.filteredHosts = m.sshConfig,
              !.shared = TRUE, !.fshared = TRUE]

\* saveHost: the form is checked, the host is added to sshConfig (or put
\* in the place of the edited one), the configuration is saved and, when
\* that succeeded, the hosts are loaded again and the list is shown.
saveHost(m, saved) ==
    LET newHost == SSHHost(m.formData.Alias, m.formData.Host, m.formData.Identity)
        update == m.viewMode = "ModeEdit" /\ m.editIndex >= 0
        changed == IF update
                   THEN AddHostIn(RemoveHostIn(m, m.hosts[m.editIndex + 1].Name), newHost)
                   ELSE AddHostIn(m, newHost)
    IN IF m.formData.Host = <<>> \/ m.formData.Alias = <<>> THEN m
       ELSE IF update /\ m.editIndex >= Len(m.hosts) THEN [m EXCEPT !.pc = "panic"]
       ELSE IF ~update /\ \E i \in 1 .. Len(m.hosts) : m.hosts[i].Name = newHost.Name
       THEN m
       ELSE IF ~saved THEN changed
       ELSE [Reload(changed) EXCEPT !.viewMode = "ModeList", !.editIndex = -1]

\* saved: whether sshConfig.Save() succeeds.
handleConnectTestMode(key, saved) ==
    /\ KeyIn("ModeConnectTest")
    /\ key \in {"esc", "enter"} /\ ui.isSetupDone => Len(ui.sshConfig) < MaxHosts
    /\ Update(
         CASE key = "esc" ->
                IF ui.isSetupDone THEN saveHost(ui, saved)
                ELSE IF ui.formData.AuthType = "key" THEN BackToForm(ui, "FieldAlias")
                ELSE [ui EXCEPT !.viewMode = "ModePasswordInput"]
           [] key = "enter" -> IF ui.isSetupDone THEN saveHost(ui, saved) ELSE ui
           [] OTHER -> ui)

handleDeleteMode(key, saved) ==
    /\ KeyIn("ModeDelete")
    /\ LET n == Len(ui.filteredHosts)
           removed == RemoveHostIn(ui, ui.filteredHosts[ui.cursor + 1].Name)
           loaded == Reload(removed)
           len == Len(loaded.filteredHosts)
           clamped == [loaded EXCEPT !.cursor = IF @ >= len THEN (IF len - 1 < 0 THEN 0
                                                                   ELSE len - 1)
                                                ELSE IF @ < 0 THEN 0 ELSE @]
       IN Update(
            CASE key \in {"y", "Y"} ->
                   IF n > 0
                   THEN Indexed(ui, ui.filteredHosts, ui.cursor,
                                [(IF saved THEN clamped ELSE removed)
                                    EXCEPT !.viewMode = "ModeList"])
                   ELSE [ui EXCEPT !.viewMode = "ModeList"]
              [] key \in {"n", "N", "esc"} -> [ui EXCEPT !.viewMode = "ModeList"]
              [] OTHER -> ui)

\* fmt.Sscanf(text, "%d", &port) succeeds on a text that starts with a
\* digit (no key here types a sign or a space).
Sscanf(text) == text # <<>> /\ text[1] \in {"1", "2", "3", "8"}

handleForwardingSelectMode(key) ==
    /\ KeyIn("ModeForwardingSelect")
    /\ Update(
         CASE key = "esc" -> [ui EXCEPT !.viewMode = "ModeList"]
           [] key = "1" ->
                [ui EXCEPT !.forwardingType = LocalForward, !.formData = NewFormData,
                           !.currentField = "FieldLocalPort",
                           !.viewMode = "ModeForwardingAdd"]
           [] key = "2" ->
                [ui EXCEPT !.forwardingType = RemoteForward,
                           !.formData = [NewFormData EXCEPT !.RemoteHost = <<"localhost">>],
                           !.currentField = "FieldRemotePort",
                           !.viewMode = "ModeForwardingAdd"]
           [] key = "3" ->
                [ui EXCEPT !.forwardingType = DynamicForward, !.formData = NewFormData,
                           !.currentField = "FieldLocalPort",
                           !.viewMode = "ModeForwardingAdd"]
           [] key = "l" -> [ui EXCEPT !.viewMode = "ModeForwardingList"]
           [] OTHER -> ui)

\* startForwarding up to its call of the manager: the form is checked and
\* the rule is made.  id: the rule's ID, which is made of the type, the
\* local port and the time in seconds.
startForwarding(m, id) ==
    LET tunnel == m.forwardingType # DynamicForward
    IN IF \/ m.formData.LocalPort = <<>>
          \/ tunnel /\ (m.formData.RemoteHost = <<>> \/ m.formData.RemotePort = <<>>)
          \/ ~Sscanf(m.formData.LocalPort)
          \/ tunnel /\ ~Sscanf(m.formData.RemotePort)
          \/ m.selectedHostIndex < 0
          \/ m.selectedHostIndex >= Len(m.filteredHosts)
       THEN m
       ELSE [m EXCEPT !.pc = "call", !.op = "StartForwarding",
                      !.rule = [ID |-> id, Type |-> m.forwardingType]]

handleForwardingAddMode(key, id) ==
    /\ KeyIn("ModeForwardingAdd")
    /\ key \in Printable =>
          /\ ui.currentField = "FieldLocalPort" => Len(ui.formData.LocalPort) < MaxText
          /\ ui.currentField = "FieldRemoteHost" => Len(ui.formData.RemoteHost) < MaxText
          /\ ui.currentField = "FieldRemotePort" => Len(ui.formData.RemotePort) < MaxText
    /\ LET field == ui.currentField
           next == CASE ui.forwardingType = LocalForward /\ field = "FieldLocalPort" ->
                          "FieldRemoteHost"
                     [] ui.forwardingType = LocalForward /\ field = "FieldRemoteHost" ->
                          "FieldRemotePort"
                     [] ui.forwardingType = LocalForward /\ field = "FieldRemotePort" ->
                          "FieldDescription"
                     [] ui.forwardingType = RemoteForward /\ field = "FieldRemotePort" ->
                          "FieldLocalPort"
                     [] ui.forwardingType = RemoteForward /\ field = "FieldLocalPort" ->
                          "FieldDescription"
                     [] ui.forwardingType = DynamicForward /\ field = "FieldLocalPort" ->
                          "FieldDescription"
                     [] OTHER -> field
       IN Update(
            CASE key = "esc" -> [ui EXCEPT !.viewMode = "ModeForwardingSelect"]
              [] key = "enter" ->
                   IF field = "FieldRemoteHost" /\ ui.forwardingType = LocalForward
                   THEN [ui EXCEPT !.cursor = 0, !.viewMode = "ModeRemoteHostSelect"]
                   ELSE startForwarding(ui, id)
              [] key \in {"tab", "down"} -> [ui EXCEPT !.currentField = next]
              [] key = "backspace" \/ key \in Printable ->
                   CASE field = "FieldLocalPort" ->
                          [ui EXCEPT !.formData.LocalPort = Typed(@, key)]
                     [] field = "FieldRemoteHost" ->
                          [ui EXCEPT !.formData.RemoteHost = Typed(@, key)]
                     [] field = "FieldRemotePort" ->
                          [ui EXCEPT !.formData.RemotePort = Typed(@, key)]
                     [] OTHER -> ui
              [] OTHER -> ui)

\* all: the rule ids of the sessions that GetAllSessions() returns to the
\* handler, in the order of its Range over the registry.
handleForwardingListMode(key) ==
    /\ KeyIn("ModeForwardingList")
    /\ \E all \in Orders({id \in Ids : sessions[id] # 0}) :
          Update(
            CASE key \in {"esc", "q"} -> [ui EXCEPT !.viewMode = "ModeList"]
              [] key = "s" ->
                   IF ui.cursor < Len(all)
                   THEN [ui EXCEPT !.pc = "call", !.op = "StopForwarding",
                                   !.rule = [NoRule EXCEPT !.ID = all[ui.cursor + 1]]]
                   ELSE ui
              [] key = "a" -> [ui EXCEPT !.viewMode = "ModeForwardingSelect"]
              [] key \in {"up", "k"} ->
                   IF ui.cursor > 0 /\ Len(all) > 0 THEN [ui EXCEPT !.cursor = @ - 1]
                   ELSE ui
              [] key \in {"down", "j"} ->
                   IF ui.cursor < Len(all) - 1 THEN [ui EXCEPT !.cursor = @ + 1] ELSE ui
              [] OTHER -> ui)

handleRemoteHostSelectMode(key) ==
    /\ KeyIn("ModeRemoteHostSelect")
    /\ Update(
         CASE key = "esc" -> [ui EXCEPT !.viewMode = "ModeForwardingAdd"]
           [] key \in {"up", "k"} -> IF ui.cursor > 0 THEN [ui EXCEPT !.cursor = @ - 1]
                                     ELSE ui
           [] key \in {"down", "j"} ->
                IF ui.cursor < Len(ui.hosts) THEN [ui EXCEPT !.cursor = @ + 1] ELSE ui
           [] key = "enter" ->
                IF ui.cursor = Len(ui.hosts)
                THEN [ui EXCEPT !.formData.UseExistingHost = FALSE,
                                !.formData.RemoteHost = <<>>,
                                !.currentField = "FieldRemoteHost",
                                !.viewMode = "ModeForwardingAdd"]
                ELSE IF ui.cursor < Len(ui.hosts)
                THEN [ui EXCEPT !.formData.UseExistingHost = TRUE,
                                !.formData.SelectedRemoteHostIndex = ui.cursor,
                                !.formData.RemoteHost = ui.hosts[ui.cursor + 1].Host,
                                !.currentField = "FieldRemotePort",
                                !.viewMode = "ModeForwardingAdd"]
                ELSE [ui EXCEPT !.viewMode = "ModeForwardingAdd"]
           [] OTHER -> ui)

\* The handler's call of the forwarding manager is entered:
\* m.forwardingManager.StartForwarding(rule, host, ...) in startForwarding,
\* m.forwardingManager.StopForwarding(session.Rule.ID) on the stop key.
managerCall ==
    /\ ui # NoUi
    /\ ui.pc = "call"
    /\ \/ /\ ui.op = "StartForwarding"
          /\ \E host \in ClientKeys : StartForwarding("c1", ui.rule, host)
       \/ /\ ui.op = "StopForwarding"
          /\ StopForwarding("c1", ui.rule.ID)

\* The call returns to the handler, which ends: a successful start shows
\* the forwarding list; the view is drawn again.
managerReturn ==
    /\ ui # NoUi
    /\ ui.pc = "call"
    /\ callers["c1"].pc = "returned"
    /\ callers' = [callers EXCEPT !["c1"] = Idle]
    /\ ui' \in View([ui EXCEPT
                        !.pc = "keys", !.op = "", !.rule = NoRule,
                        !.viewMode = IF ui.op = "StartForwarding" /\ callers["c1"].err = ""
                                     THEN "ModeForwardingList" ELSE @])
    /\ UNCHANGED <<sessions, heap, handlers, sshClients, clients, panicked,
                   pumps, socks, auth, cli, store, accept>>

\* The program has read a configuration of one host and shows the host
\* list; its forwarding manager is new.
InitUi ==
    /\ sessions = [id \in Ids |-> 0]
    /\ heap = [s \in Objs |-> FreeSlot]
    /\ handlers = [s \in Objs |-> NoHandlers]
    /\ sshClients = [k \in ClientKeys |-> 0]
    /\ clients = <<>>
    /\ callers = [c \in Callers |-> Idle]
    /\ panicked = FALSE
    /\ pumps = <<>>
    /\ socks = NoSocks
    /\ auth = NoAuth
    /\ cli = NoCli
    /\ store = NoStore
    /\ accept = NoAccept
    /\ ui = NewModel(<<SSHHost(<<"p">>, <<"p">>, "")>>)

\* The keys that are pressed in the host list and in the host form.
NextUi ==
    \/ \E key \in {"esc", "enter", "backspace", "p", "Q"} : handleSearchMode(key)
    \/ \E key \in {"up", "down", ":", "a", "e", "esc"} : handleListMode(key)
    \/ \E key \in {"esc", "tab", "up", "enter", "backspace", "q"} : handleFormMode(key)
    \/ \E key \in {"esc", "1", "2"}, keys \in 0 .. 1 : handleAuthSelectMode(key, keys)
    \/ \E key \in {"esc", "enter"}, encrypted \in BOOLEAN :
          handleKeySelectMode(key, encrypted)
    \/ \E key \in {"esc", "enter"} : handleKeyPasswordInputMode(key)
    \/ \E key \in {"esc", "enter"} : handlePasswordInputMode(key)
    \/ \E success \in BOOLEAN : connectionResult(success)
    \/ \E key \in {"esc", "enter"}, saved \in BOOLEAN : handleConnectTestMode(key, saved)

SpecUi == InitUi /\ [][NextUi]_vars

\* The keys that are pressed in the forwarding views, the calls of the
\* manager that they make, and the acceptors of the sessions.
NextFwd ==
    \/ \E key \in {"up", "down", "f", "d", "esc"} : handleListMode(key)
    \/ \E key \in {"y", "n"}, saved \in BOOLEAN : handleDeleteMode(key, saved)
    \/ \E key \in {"esc", "1", "2", "3", "l"} : handleForwardingSelectMode(key)
    \/ \E key \in {"esc", "enter", "tab", "backspace", "8"}, id \in Ids :
          handleForwardingAddMode(key, id)
    \/ \E key \in {"esc", "s", "a", "up", "down"} : handleForwardingListMode(key)
    \/ \E key \in {"esc", "up", "down", "enter"} : handleRemoteHostSelectMode(key)
    \/ managerCall
    \/ managerReturn
    \/ Collect
    \/ StartStore("c1")
    \/ getSSHClient("c1")
    \/ getSSHClientProbe("c1")
    \/ createSSHClient("c1")
    \/ startLocalForwarding("c1")
    \/ startRemoteForwarding("c1")
    \/ startDynamicForwarding("c1")
    \/ StartSetActive("c1")
    \/ StopCloseListener("c1")
    \/ StopCloseDone("c1")
    \/ StopDelete("c1")
    \/ \E s \in Objs : AcceptorDone(s)

SpecFwd == InitUi /\ [][NextFwd]_vars

\* ================================================================ claims
Returned(c, op) == callers[c].pc = "returned" /\ callers[c].op = op

\* Caller c enters the call op on id in this step.
Calls(c, op, id) ==
    /\ callers[c].pc = "idle"
    /\ callers'[c].pc # "idle"
    /\ callers'[c].op = op
    /\ callers'[c].rule.ID = id

\* C1: a StartForwarding call for an id that is registered returns "already
\* exists" and changes nothing: the registry, every session (statistics,
\* active flag, listener, shutdown signal) and the client pool stay as they were.
C1_AlreadyExistsLeavesSession ==
    [][\A c \in Callers, id \in Ids :
          Calls(c, "StartForwarding", id) /\ sessions[id] # 0 =>
              /\ callers'[c].pc = "returned"
              /\ callers'[c].err = "already exists"
              /\ UNCHANGED <<sessions, heap, handlers, sshClients, clients, panicked>>]_vars

C1_Witness ==
    \E c \in Callers :
        /\ Returned(c, "StartForwarding")
        /\ callers[c].err = "already exists"
        /\ sessions[callers[c].rule.ID] # 0
        /\ IsActive(sessions[callers[c].rule.ID])

\* C2: rule ids are unique: every session that has not been stopped and has
\* an open listener or a running acceptor is the registry's entry for its
\* id, and no two sessions of one id are active at once (at most one of the
\* concurrent calls for an id succeeded).
C2_RuleIdsUnique ==
    /\ \A s \in Objs :
          /\ heap[s].live
          /\ heap[s].done = "open"
          /\ heap[s].listener = "open" \/ heap[s].acceptor = "running"
          => sessions[heap[s].Rule.ID] = s
    /\ \A s, u \in Objs :
          /\ s # u
          /\ heap[s].live /\ heap[u].live
          /\ heap[s].Rule.ID = heap[u].Rule.ID
          => ~(IsActive(s) /\ IsActive(u))

\* C3: when StopForwarding(id) returns nil, the id is absent from
\* GetSession and GetAllSessions and the stopped session is inactive.
C3_StartThenStopRemoves ==
    \A c \in Callers :
        Returned(c, "StopForwarding") /\ callers[c].err = "" =>
            /\ ~GetSession(callers[c].rule.ID)[2]
            /\ callers[c].s \notin GetAllSessions
            /\ \A u \in GetAllSessions : heap[u].Rule.ID # callers[c].rule.ID
            /\ ~IsActive(callers[c].s)

C3_Witness ==
    \E c \in Callers :
        /\ Returned(c, "StopForwarding") /\ callers[c].err = ""
        /\ heap[callers[c].s].acceptor = "running"
        /\ heap[callers[c].s].done = "closed"

StarterErrors ==
    {"failed to get SSH client", "failed to listen", "failed to listen on remote",
     "unsupported forwarding type"}

\* C4: when StartForwarding returns the error of a failed starter, the id
\* is absent from the registry, no session of that id has an open listener,
\* the call's session has no acceptor and is not active; and only a session
\* whose starter succeeded is ever active.
C4_FailedStartRollsBack ==
    /\ \A c \in Callers :
          Returned(c, "StartForwarding") /\ callers[c].err \in StarterErrors =>
              /\ sessions[callers[c].rule.ID] = 0
              /\ \A u \in Objs :
                    heap[u].live /\ heap[u].Rule.ID = callers[c].rule.ID
                        => heap[u].listener # "open"
              /\ heap[callers[c].s].acceptor = "none"
              /\ ~IsActive(callers[c].s)
    /\ \A s \in Objs : IsActive(s) => heap[s].acceptor # "none"

C4_Witness ==
    \E c \in Callers :
        /\ Returned(c, "StartForwarding")
        /\ callers[c].err = "failed to listen"
        /\ \E k \in ClientKeys : sshClients[k] # 0

Registered(s) == \E id \in Ids : sessions[id] = s

\* C5: in every state a session is in the registry if and only if its
\* acceptor loop is running.
C5_RegisteredIffAcceptorRunning ==
    \A s \in Objs : heap[s].live => (Registered(s) <=> heap[s].acceptor = "running")

\* C6: the shutdown channel of a session is closed at most once: no
\* interleaving of StopForwarding and StopAll calls closes a closed channel.
C6_ShutdownSignalOnce == ~panicked

\* C7: a StopForwarding call for an id that is not registered returns an
\* error and changes nothing: registry, sessions and client pool stay as
\* they were.
C7_StopAbsentChangesNothing ==
    [][\A c \in Callers, id \in Ids :
          Calls(c, "StopForwarding", id) /\ sessions[id] = 0 =>
              /\ callers'[c].pc = "returned"
              /\ callers'[c].err = "not found"
              /\ UNCHANGED <<sessions, heap, handlers, sshClients, clients, panicked>>]_vars

C7_Witness ==
    \E c \in Callers, s \in Objs :
        /\ Returned(c, "StopForwarding")
        /\ callers[c].err = "not found"
        /\ heap[s].live /\ IsActive(s)

\* The session of id was stopped and the id has not been started again.
Stopped(id) ==
    /\ sessions[id] = 0
    /\ \E s \in Objs : heap[s].live /\ heap[s].Rule.ID = id /\ heap[s].done = "closed"

\* C8 as claimed: a StopForwarding(id) call made after the session of id was
\* stopped fails with the double close of the shutdown channel.
C8_SecondStopDoubleCloses ==
    [][\A c \in Callers, id \in Ids :
          Calls(c, "StopForwarding", id) /\ Stopped(id) => panicked']_vars

\* C8 as amended: a StopForwarding(id) call made after the session of id was
\* stopped returns the "not found" error and closes nothing; with calls made
\* one after the other the shutdown channel is never closed twice.
C8_SecondStopNotFound ==
    /\ [][\A c \in Callers, id \in Ids :
             Calls(c, "StopForwarding", id) /\ Stopped(id) =>
                 /\ callers'[c].pc = "returned"
                 /\ callers'[c].err = "not found"
                 /\ heap' = heap]_vars
    /\ [](~panicked)

C8_Witness ==
    \E c \in Callers :
        /\ Returned(c, "StopForwarding")
        /\ callers[c].err = "not found"
        /\ Stopped(callers[c].rule.ID)

\* C9: when StopAll returns, the registry is empty and every session that
\* was registered when it was called is inactive, its listener closed and
\* its shutdown channel closed.
C9_StopAllStopsEverySession ==
    \A c \in Callers :
        Returned(c, "StopAll") =>
            /\ \A id \in Ids : sessions[id] = 0
            /\ \A s \in callers[c].snap :
                  /\ ~IsActive(s)
                  /\ heap[s].listener = "closed"
                  /\ heap[s].done = "closed"

C9_Witness ==
    \E c \in Callers :
        /\ Returned(c, "StopAll")
        /\ Cardinality(callers[c].snap) = Cardinality(Ids)

\* Handlers of a session that have run IncrementConnections and have not returned.
Running(s) == handlers[s]["handshake"] + handlers[s]["dial"] + handlers[s]["pump"]

\* C10 as claimed: activeConnections is never negative and equals the number
\* of handlers that were accepted (spawned by the acceptor) and have not
\* finished.
C10_ActiveEqualsAccepted ==
    \A s \in Objs :
        /\ heap[s].ActiveConnections >= 0
        /\ heap[s].ActiveConnections = handlers[s]["start"] + Running(s)

\* C10 as amended: activeConnections is never negative and equals the number
\* of handlers that have run IncrementConnections and have not returned; a
\* handler that was spawned and has not run yet is not counted.
C10_ActiveEqualsRunning ==
    \A s \in Objs :
        /\ heap[s].ActiveConnections >= 0
        /\ heap[s].ActiveConnections = Running(s)

C10_Witness ==
    \E s \in Objs :
        /\ handlers[s]["pump"] = 2
        /\ heap[s].ActiveConnections = 2

\* Bytes the copy goroutines of direction d of the connections of session s
\* have added to the session's counter.
RECURSIVE Recorded(_, _, _)
Recorded(ps, s, d) ==
    IF ps = <<>> THEN 0
    ELSE (IF Head(ps).s = s THEN Head(ps).dir[d].written ELSE 0) + Recorded(Tail(ps), s, d)

\* C11: for every connection and direction the bytes the pump has added to
\* bytesSent / bytesReceived never exceed the bytes written to that
\* direction's destination stream, and the session's counters hold exactly
\* the bytes added by its connections' pumps, whether or not the session
\* was stopped mid-copy and whether or not the pump has returned.
C11_RecordedWithinWritten ==
    /\ \A p \in DOMAIN pumps, d \in Dirs :
          pumps[p].dir[d].written <= pumps[p].dir[d].dst
    /\ \A s \in Objs :
          heap[s].live =>
              /\ heap[s].BytesSent = Recorded(pumps, s, 1)
              /\ heap[s].BytesReceived = Recorded(pumps, s, 2)

C11_Witness ==
    \E p \in DOMAIN pumps, d, e \in Dirs :
        /\ pumps[p].joined
        /\ heap[pumps[p].s].live /\ ~IsActive(pumps[p].s)
        /\ pumps[p].dir[d].pc = "end" /\ pumps[p].dir[d].written > 0
        /\ pumps[p].dir[e].pc = "stats" /\ pumps[p].dir[e].nw > 0

\* C12: in every step bytesReceived, bytesSent, connectionCount and
\* errorCount of a session do not decrease.
C12_CountersNeverDecrease ==
    [][\A s \in Objs :
          heap[s].live /\ heap'[s].live =>
              /\ heap'[s].BytesReceived >= heap[s].BytesReceived
              /\ heap'[s].BytesSent >= heap[s].BytesSent
              /\ heap'[s].ConnectionCount >= heap[s].ConnectionCount
              /\ heap'[s].ErrorCount >= heap[s].ErrorCount]_vars

C12_Witness ==
    \E s \in Objs :
        /\ heap[s].live
        /\ heap[s].BytesReceived > 0 /\ heap[s].BytesSent > 0
        /\ heap[s].ConnectionCount > 0 /\ heap[s].ErrorCount > 0
        /\ heap[s].ActiveConnections = 0

\* C13: with calls made one after the other and every transport passing its
\* liveness probe, sessions started against the same user@host:port share one
\* transport: the creation count stays at 1 per key, every started session
\* uses the pool's entry, and a StartForwarding that finds a live entry
\* creates nothing.
C13_PoolReuse ==
    /\ []((\A i \in DOMAIN clients : clients[i] = "alive") =>
             /\ Len(clients) <= Cardinality(ClientKeys)
             /\ \A s \in Objs :
                   heap[s].live /\ heap[s].sshClient # 0 =>
                       \E k \in ClientKeys : sshClients[k] = heap[s].sshClient)
    /\ [][\A c \in Callers :
             /\ callers[c].pc = "probe"
             /\ callers'[c].pc # "probe"
             /\ clients[callers[c].client] = "alive"
             => /\ clients' = clients
                /\ sshClients' = sshClients
                /\ callers'[c].pc = "listen"
                /\ callers'[c].client = sshClients[callers[c].host]]_vars

C13_Witness ==
    \E s, u \in Objs :
        /\ s # u
        /\ heap[s].live /\ heap[u].live
        /\ IsActive(s) /\ IsActive(u)
        /\ heap[s].sshClient # 0
        /\ heap[s].sshClient = heap[u].sshClient
        /\ Len(clients) = 1

\* Transport i is closed in this step.
Closes(i) == clients[i] # "closed" /\ clients'[i] = "closed"

\* This step changes the pool or closes a transport.
PoolChanges == sshClients' # sshClients \/ \E i \in DOMAIN clients : Closes(i)

\* A transport is closed only by the eviction in getSSHClient, which takes
\* the entry out of the pool, and the pool is changed only by getSSHClient:
\* the steps of StopForwarding, StopAll, the rollback of a failed
\* StartForwarding, the acceptors and the connection handlers leave both alone.
OnlyGetSSHClientChangesPool ==
    /\ PoolChanges =>
          \E c \in Callers :
              callers[c].pc \in {"probe", "create"} /\ callers'[c] # callers[c]
    /\ \A i \in DOMAIN clients :
          Closes(i) =>
              \E c \in Callers :
                  /\ callers[c].pc = "probe"
                  /\ callers[c].client = i
                  /\ sshClients[callers[c].host] = i
                  /\ sshClients'[callers[c].host] = 0

\* C14 as claimed: a pooled transport is closed only by the pool's eviction
\* step; StopForwarding, StopAll and the connection handlers leave every
\* pooled transport open and the pool unchanged, and when a StartForwarding
\* call has failed the pool holds what it held when the call was made.
C14_PoolUnchangedByFailedStart ==
    /\ [][OnlyGetSSHClientChangesPool]_vars
    /\ [](\A c \in Callers :
             Returned(c, "StartForwarding") /\ callers[c].err \in StarterErrors =>
                 sshClients = callers[c].pool)

\* C14 as amended: a pooled transport is closed only by the pool's eviction
\* step, and the pool is changed only by the transport lookup of a
\* StartForwarding call; StopForwarding, StopAll, the rollback of a failed
\* StartForwarding and the connection handlers leave every pooled transport
\* open and the pool unchanged.  (A StartForwarding call that fails after
\* its lookup leaves the entry the lookup stored.)
C14_PoolClosedOnlyByEviction == [][OnlyGetSSHClientChangesPool]_vars

C14_Witness ==
    \E c \in Callers :
        /\ Returned(c, "StartForwarding")
        /\ callers[c].err \in {"failed to listen", "failed to listen on remote"}
        /\ sshClients # callers[c].pool
        /\ \E i \in DOMAIN clients : clients[i] = "closed"
        /\ \E s \in Objs : handlers[s]["pump"] > 0

\* C15: the configuration a fresh transport is dialed with offers public-key
\* authentication when the host record has an identity file and password
\* authentication with the supplied credential when it has none: at least
\* one method in both cases.
C15_AuthMethodOffered ==
    auth # NoAuth /\ auth.pc = "dial" =>
        /\ auth.Identity # "" => auth.Auth = <<"publickey">>
        /\ auth.Identity = "" => auth.Auth = <<"password">>
        /\ Len(auth.Auth) >= 1

\* A greeting and a CONNECT request as the protocol defines them: version 5,
\* the methods the greeting announces, command CONNECT, and an IPv4 or
\* domain address with its port, complete.
WellFormed(greeting, request) ==
    /\ Len(greeting) >= 3 /\ greeting[1] = 5 /\ Len(greeting) = 2 + greeting[2]
    /\ Len(request) >= 7 /\ request[1] = 5 /\ request[2] = 1
    /\ \/ request[4] = 1 /\ Len(request) = 10
       \/ request[4] = 3 /\ Len(request) = 7 + request[5]

\* "a.b.c.d:port" or the domain followed by ":port", port being the 16-bit
\* big-endian value of the request's last two bytes.
TargetOf(request) ==
    IF request[4] = 1
    THEN Decimal(request[5]) \o <<46>> \o Decimal(request[6]) \o <<46>>
         \o Decimal(request[7]) \o <<46>> \o Decimal(request[8]) \o <<58>>
         \o Decimal(request[9] * 256 + request[10])
    ELSE SubSeq(request, 6, 5 + request[5]) \o <<58>>
         \o Decimal(request[6 + request[5]] * 256 + request[7 + request[5]])

\* C16: for a well-formed exchange, when socks5Handshake returns it returns
\* no error and the target "host:port" of the request.
C16_WellFormedExchangeGivesTarget ==
    /\ socks # NoSocks
    /\ WellFormed(socks.greeting, socks.request)
    /\ socks.pc \in {"failed", "dial"}
    => /\ socks.pc = "dial"
       /\ socks.target = TargetOf(socks.request)

\* Wrong version, a command other than CONNECT, a truncated greeting or
\* request, or address type IPv6.
Malformed(greeting, request) ==
    \/ greeting[1] # 5 \/ Len(greeting) < 3
    \/ Len(request) < 7
    \/ request[1] # 5 \/ request[2] # 1
    \/ request[4] = 4
    \/ request[4] = 1 /\ Len(request) < 10
    \/ request[4] = 3 /\ Len(request) < 7 + request[5]

\* C17 as claimed: on malformed or unsupported input the negotiator returns
\* an error, no byte is written to the client, and the connection is closed
\* without the pump being started.
C17_MalformedNothingWritten ==
    socks # NoSocks /\ Malformed(socks.greeting, socks.request) =>
        /\ socks.pc \in {"greeting", "request", "failed", "closed"}
        /\ socks.pc \in {"failed", "closed"} =>
              /\ socks.err # ""
              /\ socks.out = <<>>
              /\ handlers[socks.s]["pump"] = 0

\* C17 as amended: on malformed or unsupported input the negotiator returns
\* an error, no CONNECT reply is written, and the connection is closed
\* without the pump being started; the client has received nothing when its
\* greeting was rejected, and the 2-byte method selection 05 00, written
\* before the request is read, when its request was rejected.
C17_MalformedNoConnectReply ==
    socks # NoSocks /\ Malformed(socks.greeting, socks.request) =>
        /\ socks.pc \in {"greeting", "request", "failed", "closed"}
        /\ socks.pc \in {"failed", "closed"} =>
              /\ socks.err # ""
              /\ socks.out \in {<<>>, <<5, 0>>}
              /\ (socks.out = <<>>) <=>
                    (socks.err = "unsupported SOCKS version" \/ socks.buf = <<>>)
              /\ handlers[socks.s]["pump"] = 0
        /\ socks.pc = "closed" =>
              /\ heap[socks.s].ErrorCount = 1
              /\ heap[socks.s].ActiveConnections = 0
              /\ handlers[socks.s] = NoHandlers

C17_Witness ==
    /\ socks # NoSocks
    /\ socks.pc = "closed"
    /\ socks.request[4] = 4
    /\ socks.err = "unsupported address type"
    /\ socks.out = <<5, 0>>

\* The reply with reply code 1, "general SOCKS server failure".
GeneralFailureReply == <<5, 1, 0, 1, 0, 0, 0, 0, 0, 0>>

\* After a negotiation that succeeded: nothing but the method selection is
\* written before the dial has returned; after a dial that succeeded the
\* success reply, and only it, is written before the pump starts; after a
\* dial that failed the reply failure, and only it, is written, errorCount is
\* incremented and the handler returns without starting the pump.
OneConnectReply(failure) ==
    socks # NoSocks /\ socks.target # <<>> =>
        /\ socks.pc \in {"dial", "reply"} =>
              socks.out = <<5, 0>> /\ handlers[socks.s]["pump"] = 0
        /\ socks.pc = "pump" =>
              /\ socks.dialed
              /\ socks.out = <<5, 0>> \o SuccessReply
              /\ heap[socks.s].ErrorCount = 0
        /\ socks.pc = "closed" =>
              /\ ~socks.dialed
              /\ socks.out = <<5, 0>> \o failure
              /\ heap[socks.s].ErrorCount = 1
              /\ handlers[socks.s]["pump"] = 0
        /\ socks.pc \in {"dial", "reply", "pump", "closed"}

\* C18 as claimed: after a successful negotiation exactly one CONNECT reply
\* is written: the 10-byte success reply (bind address 0.0.0.0:0) after a
\* dial that succeeded and before the pump starts, the general-failure
\* reply after a dial that failed, with errorCount incremented and the pump
\* never started.
C18_GeneralFailureReply ==
    /\ SuccessReply = <<5, 0, 0, 1>> \o <<0, 0, 0, 0>> \o <<0, 0>>
    /\ OneConnectReply(GeneralFailureReply)

\* C18 as amended: as claimed, except that the fixed reply written after a
\* failed dial carries reply code 5 (connection refused): 05 05 00 01 and a
\* zero bind address and port.
C18_ConnectionRefusedReply ==
    /\ SuccessReply = <<5, 0, 0, 1>> \o <<0, 0, 0, 0>> \o <<0, 0>>
    /\ OneConnectReply(<<5, 5, 0, 1>> \o <<0, 0, 0, 0>> \o <<0, 0>>)

\* The request for 93.184.216.34:80 was negotiated, the dial failed and the
\* handler has returned.
C18_Witness ==
    /\ socks # NoSocks
    /\ socks.pc = "closed"
    /\ socks.target = <<57, 51, 46, 49, 56, 52, 46, 50, 49, 54, 46, 51, 52, 58, 56, 48>>
    /\ Len(socks.out) = 12

\* The messages of the failures of a connection handler.
HandlerFailures ==
    {"Failed to connect", "Failed to connect to local", "SOCKS5 handshake failed",
     "Forward error"}

\* The step is the failure of a handler of session s: a dial or a handshake
\* that is not followed by the next stage, or a copy direction whose end
\* is counted.
HandlerFails(s) ==
    \/ handlers'[s]["dial"] < handlers[s]["dial"]
          /\ handlers'[s]["pump"] = handlers[s]["pump"]
    \/ handlers'[s]["handshake"] < handlers[s]["handshake"]
          /\ handlers'[s]["dial"] = handlers[s]["dial"]
    \/ /\ handlers'[s]["pump"] < handlers[s]["pump"]
             \/ handlers'[s]["linger"] < handlers[s]["linger"]
       /\ heap'[s].ErrorCount # heap[s].ErrorCount

AcceptFails(s) ==
    /\ Accepting(s)
    /\ heap[s].listener = "closed"
    /\ UNCHANGED <<sessions, handlers, sshClients, clients, callers, panicked, aux>>
    /\ heap'[s].live

\* The step is the return of a copy of session s that failed.
CopyFails(s) ==
    \E p \in DOMAIN pumps, d \in Dirs :
        /\ pumps[p].s = s
        /\ pumps[p].dir[d].pc = "return" /\ pumps[p].dir[d].err
        /\ pumps'[p].dir[d].pc = "end"

\* C20: an Accept failure and a copy failure of a session that
\* StopForwarding has marked inactive change neither errorCount nor
\* lastError of the session.
C20_FailuresOfStoppedSessionSuppressed ==
    [][\A s \in Objs :
          heap[s].live /\ ~IsActive(s) /\ (AcceptFails(s) \/ CopyFails(s)) =>
              /\ heap'[s].ErrorCount = heap[s].ErrorCount
              /\ heap'[s].LastError = heap[s].LastError]_vars

\* StopForwarding has marked the session inactive and closed its listener,
\* the acceptor is still in its loop, and a copy has returned an error that
\* was not counted.
C20_Witness ==
    \E p \in DOMAIN pumps, d \in Dirs :
        LET s == pumps[p].s
        IN /\ heap[s].live /\ ~IsActive(s)
           /\ pumps[p].dir[d].pc = "end" /\ pumps[p].dir[d].err
           /\ heap[s].ErrorCount = 0 /\ heap[s].LastError = ""
           /\ Accepting(s) /\ heap[s].listener = "closed"

\* One or more decimal digits.
Numeric(s) == Atoi(s).ok /\ s[1] \notin {"+", "-"}

\* The rule the three encodings stand for, NilRule for any other text.
\* exact: the prefix letters are R and D and a port is one or more digits;
\* otherwise the prefix letters may be in lower case and a port is a decimal
\* integer with an optional sign.
RuleOf(ruleStr, exact) ==
    LET p == Split(ruleStr)
        letter(s, upper, lower) == s = <<upper>> \/ (~exact /\ s = <<lower>>)
        port(s) == IF exact THEN Numeric(s) ELSE Atoi(s).ok
        rule(type, localPort, remoteHost, remotePort) ==
            [ID |-> <<"cli-", Len(ruleStr)>>, Type |-> type, LocalHost |-> "localhost",
             LocalPort |-> localPort, RemoteHost |-> remoteHost, RemotePort |-> remotePort]
    IN IF Len(p) = 3 /\ port(p[1]) /\ port(p[3])
       THEN rule(LocalForward, Atoi(p[1]).n, p[2], Atoi(p[3]).n)
       ELSE IF Len(p) = 4 /\ letter(p[1], "R", "r") /\ port(p[2]) /\ port(p[4])
       THEN rule(RemoteForward, Atoi(p[2]).n, p[3], Atoi(p[4]).n)
       ELSE IF Len(p) = 2 /\ letter(p[1], "D", "d") /\ port(p[2])
       THEN rule(DynamicForward, Atoi(p[2]).n, <<>>, 0)
       ELSE NilRule

\* C21 as claimed: the parser maps "localPort:remoteHost:remotePort" to a
\* Local rule, "R:localPort:remoteHost:remotePort" to a Remote rule and
\* "D:port" to a Dynamic rule, with the fields set from the parts, and gives
\* an error and no rule for every other text.
C21_ThreeEncodingsOnly ==
    cli # NoCli /\ cli.pc \in {"parsed", "failed"} =>
        /\ cli.rule = RuleOf(cli.ruleStr, TRUE)
        /\ (cli.err # "") <=> (RuleOf(cli.ruleStr, TRUE) = NilRule)

\* C21 as amended: the same mapping, where the prefix letters R and D are
\* also accepted in lower case and a port is any decimal integer with an
\* optional sign; every other text gives an error and no rule.
C21_ThreeEncodingsLenient ==
    cli # NoCli /\ cli.pc \in {"parsed", "failed"} =>
        /\ cli.rule = RuleOf(cli.ruleStr, FALSE)
        /\ (cli.err # "") <=> (RuleOf(cli.ruleStr, FALSE) = NilRule)

\* "R:80:h:443" was parsed to a Remote rule.
C21_Witness ==
    /\ cli # NoCli
    /\ cli.pc = "parsed"
    /\ cli.ruleStr = <<"R", ":", "8", "0", ":", "h", ":", "4", "4", "3">>
    /\ cli.rule.Type = RemoteForward
    /\ cli.rule.LocalPort = 80 /\ cli.rule.RemoteHost = <<"h">>
    /\ cli.rule.RemotePort = 443

\* C22: two distinct rule strings that the parser accepts never receive
\* the same rule id.
C22_DistinctStringsDistinctIds ==
    /\ cli # NoCli
    /\ cli.pc = "again"
    /\ cli.rule2 # NilRule
    => cli.rule.ID # cli.rule2.ID

\* The sessions that are running: registered and active.
RunningIds == {id \in Ids : sessions[id] # 0 /\ IsActive(sessions[id])}

\* C23: "--stop-forwarding ID" stops the session ID when it was started and
\* is still running, and "--list-forwarding" lists every session that is
\* running.
C23_CommandsReachRunningSessions ==
    [][/\ cli.pc = "--stop-forwarding" /\ cli'.pc = "done" /\ cli.id \in RunningIds =>
            cli'.err = "" /\ cli.id \notin RunningIds'
       /\ cli.pc = "--list-forwarding" /\ cli'.pc = "done" =>
            cli'.listed = RunningIds]_vars

\* The host entries of a file: for each Host line its name and the
\* directives that follow it up to the next Host line.  A directive that
\* states the default port need not be written.
HostEntries(file) ==
    {[name |-> file[i].value,
      directives |->
          {file[j] : j \in {k \in i + 1 .. Len(file) :
                                /\ file[k].key \notin {"", "#", "Host"}
                                /\ file[k] # Line("Port", "22")
                                /\ \A m \in i + 1 .. k : file[m].key # "Host"}}] :
     i \in {k \in 1 .. Len(file) : file[k].key = "Host"}}

\* C24: after loading and saving, with no edit or with one host added or
\* removed, every host entry of the file as it was, but the one removed, is
\* in the file with all of its directives.
C24_SavePreservesDirectives ==
    store # NoStore /\ store.pc = "saved" =>
        \A old \in HostEntries(store.original) :
            old.name # store.edit =>
                \E new \in HostEntries(store.file) :
                    new.name = old.name /\ old.directives \subseteq new.directives

\* Caller c is in a stop of a registered id and has reached the step pc.
Stopping(c, pc) == callers[c].op \in {"StopForwarding", "StopAll"} /\ callers[c].pc = pc

AllReturned == \A c \in Callers : callers[c].pc \in {"idle", "returned"}

\* C26: once the calls have returned, a session is either registered,
\* active and served by its acceptor, or unregistered, inactive, with its
\* listener closed or about to be closed by the acceptor that has been told
\* to exit; in particular it is never active while absent from the registry.
C26_ConsistentAfterStartAndStop ==
    AllReturned =>
        \A s \in Objs : heap[s].live =>
            \/ /\ sessions[heap[s].Rule.ID] = s
               /\ IsActive(s)
               /\ heap[s].acceptor = "running" /\ heap[s].done = "open"
            \/ /\ sessions[heap[s].Rule.ID] # s
               /\ ~IsActive(s)
               /\ heap[s].listener # "open" \/ heap[s].done = "closed"
               /\ heap[s].acceptor = "running" => heap[s].done = "closed"

\* The open transport session s is served through, 0 when it has none.
Transport(s) ==
    IF /\ heap[s].live /\ heap[s].acceptor = "running" /\ heap[s].sshClient # 0
       /\ clients[heap[s].sshClient] = "alive"
    THEN heap[s].sshClient ELSE 0

\* C27: every open transport the manager has created is the pool's entry
\* for its key, and the sessions of the endpoint that are served through an
\* open transport share that one.
C27_OneTransportPerEndpoint ==
    /\ \A cl \in DOMAIN clients :
          clients[cl] = "alive" => \E k \in ClientKeys : sshClients[k] = cl
    /\ \A s1, s2 \in Objs :
          Transport(s1) # 0 /\ Transport(s2) # 0 => Transport(s1) = Transport(s2)

\* C28: a failed probe of the cached transport removes the entry and closes
\* the transport before any replacement is dialed; a replacement that
\* succeeds becomes the pool's entry for the key; when it fails the call
\* returns an error and the pool holds no entry for the key.
C28_EvictThenReplace ==
    [][\A c \in Callers :
          LET key == callers[c].host
              cl == callers[c].client
          IN /\ callers[c].pc = "probe" /\ clients[cl] # "alive" /\ callers'[c] # callers[c] =>
                   /\ sshClients'[key] = 0
                   /\ clients'[cl] = "closed"
                   /\ Len(clients') = Len(clients)
                   /\ callers'[c].pc = "create"
             /\ callers[c].pc = "create" /\ callers'[c] # callers[c] =>
                   /\ sshClients[key] = 0
                   /\ \/ /\ Len(clients') = Len(clients) + 1
                         /\ clients'[Len(clients')] = "alive"
                         /\ sshClients'[key] = Len(clients')
                      \/ /\ clients' = clients
                         /\ sshClients'[key] = 0
                         /\ Returned(c, "StartForwarding")'
                         /\ callers'[c].err = "failed to get SSH client"]_vars

\* The transport that was pooled when the call began has been evicted and
\* closed, the replacement failed, and the call has returned the error with
\* the pool empty.
C28_Witness ==
    \E c \in Callers, k \in ClientKeys :
        /\ Returned(c, "StartForwarding")
        /\ callers[c].err = "failed to get SSH client"
        /\ callers[c].pool[k] # 0
        /\ clients[callers[c].pool[k]] = "closed"
        /\ sshClients[k] = 0

\* C29 (as stated): forwardData returns once one direction has ended, without
\* waiting for the other, and the second direction to end does so only after
\* forwardData has returned and the handler's deferred calls have closed the
\* connections.
C29_SecondExitsAfterCleanup ==
    [][\A p \in DOMAIN pumps :
          /\ ~pumps[p].joined /\ pumps'[p].joined =>
                \E d \in Dirs : pumps[p].dir[d].pc = "end"
          /\ \A d \in Dirs :
                /\ pumps[p].dir[d].pc # "end" /\ pumps'[p].dir[d].pc = "end"
                /\ pumps[p].dir[3 - d].pc = "end"
                => pumps[p].joined]_vars

\* C29 (amended): forwardData returns only after a direction has ended and
\* can return as soon as one has, whatever the other is doing; a direction
\* still copying after the return gets an error from its next Read, and
\* nothing from its next Write, on the closed connections and ends.  The
\* second direction may also have ended on its own before the return.
C29_ReturnsOnFirstEnd ==
    /\ [](\A p \in DOMAIN pumps :
             ~pumps[p].joined /\ Ready /\ (\E d \in Dirs : pumps[p].dir[d].pc = "end")
             => ENABLED forwardDataJoin(p))
    /\ [][\A p \in DOMAIN pumps :
             /\ ~pumps[p].joined /\ pumps'[p].joined =>
                   \E d \in Dirs : pumps[p].dir[d].pc = "end"
             /\ \A d \in Dirs :
                   pumps[p].joined /\ pumps'[p].dir[d] # pumps[p].dir[d]
                   /\ pumps[p].dir[d].pc \in {"read", "write"}
                   => /\ pumps'[p].dir[d].pc = "return"
                      /\ pumps'[p].dir[d].err
                      /\ pumps'[p].dir[d].dst = pumps[p].dir[d].dst]_vars

\* forwardData has returned, one direction has ended and the other is still
\* in its copy loop, about to read from a closed connection.
C29_Witness ==
    \E p \in DOMAIN pumps, d \in Dirs :
        /\ pumps[p].joined
        /\ pumps[p].dir[d].pc = "end"
        /\ pumps[p].dir[3 - d].pc = "read"

\* C30: in the acceptor loop of a Local or Dynamic session an Accept that
\* ends on its deadline leaves ErrorCount as it is, and an Accept that fails
\* otherwise adds exactly one to ErrorCount if the session is active when
\* IsActive is called and nothing if it is not; after either the loop is
\* back at its select on session.done.
C30_AcceptErrors ==
    [][LET s == accept.s
       IN /\ accept.pc = "accept" /\ accept'.pc # "accept" /\ accept'.err = "timeout" =>
                /\ heap'[s].ErrorCount = heap[s].ErrorCount
                /\ accept'.pc = "select"
                /\ heap'[s].acceptor = "running"
          /\ accept.pc = "error" /\ accept'.pc # "error" =>
                /\ heap'[s].ErrorCount =
                      heap[s].ErrorCount + (IF heap[s].active = 1 THEN 1 ELSE 0)
                /\ accept'.pc = "select"
                /\ heap'[s].acceptor = "running"]_vars

\* Accept has failed on a session that was no longer active: the error was
\* not counted and the acceptor is back at its select.
C30_Witness ==
    /\ accept # NoAccept
    /\ accept.pc = "select"
    /\ accept.err = "error"
    /\ heap[accept.s].Rule.Type \in {LocalForward, DynamicForward}
    /\ heap[accept.s].active = 0
    /\ heap[accept.s].ErrorCount = 0

\* C31: once StopForwarding has deleted the session's entry and returned, the
\* acceptor of the session accepts no further connection and, under fair
\* scheduling, returns: for the three types alike, a Remote acceptor by the
\* error Accept gives on the closed listener followed by the select on done.
C31_AcceptorTerminates ==
    /\ (sessions["a"] = 0) ~> (accept.pc = "exited")
    /\ [][sessions["a"] = 0 =>
             /\ handlers'[accept.s]["start"] = handlers[accept.s]["start"]
             /\ accept'.err # "nil" \/ accept'.err = accept.err]_vars

\* The acceptor of a stopped Remote session has returned after Accept
\* failed on the closed listener.
C31_Witness ==
    /\ accept # NoAccept
    /\ sessions["a"] = 0
    /\ accept.pc = "exited"
    /\ accept.err = "error"
    /\ heap[accept.s].Rule.Type = RemoteForward

\* C32: once StopForwarding has deleted the entry of session "a" and returned,
\* the statistics of the session change no more, and under fair scheduling
\* every connection handler and copy goroutine of the session ends, with
\* ActiveConnections back at 0, whatever the peers do.
C32_StopTearsDownConnections ==
    /\ [][sessions["a"] = 0 /\ heap'[1].live =>
             /\ heap'[1].BytesSent = heap[1].BytesSent
             /\ heap'[1].BytesReceived = heap[1].BytesReceived
             /\ heap'[1].ConnectionCount = heap[1].ConnectionCount]_vars
    /\ (sessions["a"] = 0) ~>
          /\ \A pc \in HandlerPcs : handlers[1][pc] = 0
          /\ heap[1].ActiveConnections = 0

\* C33: on an active session whose peers do not fail, the return of a copy
\* that failed on the connections the handler closed changes neither
\* ErrorCount nor LastError.
C33_InducedFailureNotRecorded ==
    [][\A s \in Objs :
          heap[s].live /\ IsActive(s) /\ CopyFails(s) =>
              /\ heap'[s].ErrorCount = heap[s].ErrorCount
              /\ heap'[s].LastError = heap[s].LastError]_vars

\* C34: a copy goroutine that returns from copyWithStats can always send on
\* done, and once forwardData has returned and the handler has closed the
\* connections both copy goroutines end, under fair scheduling.
C34_CopyGoroutinesEnd ==
    /\ [](\A p \in DOMAIN pumps, d \in Dirs :
             pumps[p].dir[d].pc = "return" /\ Ready => ENABLED copyReturn(p, d))
    /\ (pumps # <<>> /\ pumps[1].joined) ~>
          (pumps # <<>> /\ \A d \in Dirs : pumps[1].dir[d].pc = "end")

\* forwardData returned after the first direction ended; the other copy
\* goroutine then failed on the closed connection and has ended too, with
\* no goroutine of the connection left.
C34_Witness ==
    /\ pumps # <<>>
    /\ pumps[1].joined
    /\ \E d \in Dirs : /\ pumps[1].dir[d].pc = "end" /\ pumps[1].dir[d].err
                       /\ pumps[1].dir[3 - d].pc = "end" /\ ~pumps[1].dir[3 - d].err
    /\ \A pc \in HandlerPcs : handlers[pumps[1].s][pc] = 0

\* C35: whenever a connection handler of a Local or Dynamic session is
\* about to dial, the transport the session holds is the pool's entry for
\* the session's endpoint and has not been closed.
C35_DialsOnPooledTransport ==
    \A s \in Objs :
        /\ heap[s].live
        /\ heap[s].Rule.Type \in {LocalForward, DynamicForward}
        /\ heap[s].acceptor = "running"
        /\ handlers[s]["dial"] > 0
        => /\ \E k \in ClientKeys : sshClients[k] = heap[s].sshClient
           /\ clients[heap[s].sshClient] # "closed"

\* C36: the outcome of socks5Handshake is that of the client's bytes, however
\* they are cut into segments: the target (or the failure) is the one the
\* negotiator gives when the greeting and the request arrive in a segment
\* each.
C36_SegmentationIndependent ==
    socks # NoSocks /\ socks.pc \in {"dial", "failed"} =>
        LET zero == [i \in 1 .. BufSize |-> 0]
            g == ReadBuf(zero, <<socks.greeting>>)
            r == socks5Target(ReadBuf(g, <<socks.request>>), ReadLen(<<socks.request>>))
            whole == IF ReadLen(<<socks.greeting>>) < 3 \/ g[1] # 5
                     THEN [target |-> <<>>, err |-> "unsupported SOCKS version"]
                     ELSE r
        IN /\ socks.target = whole.target
           /\ (socks.err = "") = (whole.err = "")

\* C37: the second Read of at most 256 bytes ends in a target or in an
\* error, never both or neither; the outcome is that of the n bytes
\* received and of nothing the buffer holds from position n on; and a domain
\* request with length byte L gives a target only when n >= 7 + L.
C37_ParseWithinReceivedBytes ==
    /\ socks # NoSocks
    /\ \/ socks.pc = "dial"
       \/ socks.pc = "failed" /\ socks.err \notin {"EOF", "unsupported SOCKS version"}
    => /\ socks.n <= BufSize
       /\ (socks.err = "") # (socks.target = <<>>)
       /\ \A v \in {0, 1, 255} :
             LET other == [i \in 1 .. BufSize |->
                             IF i <= socks.n THEN socks.buf[i] ELSE v]
                 r == socks5Target(other, socks.n)
             IN r.target = socks.target /\ r.err = socks.err
       /\ socks.err = "" /\ socks.buf[4] = 3 => socks.n >= 7 + socks.buf[5]

\* A request for a domain of 250 bytes, of which the Read returned the 256
\* that fit the buffer: rejected as incomplete.
C37_Witness ==
    /\ socks # NoSocks
    /\ socks.pc = "failed"
    /\ socks.err = "incomplete domain name"
    /\ socks.n = BufSize
    /\ socks.buf[5] = 250

\* C38: while the form was opened with the add-host key, sshConfig.Hosts is
\* what it was when the form was opened, or that with one new host put in
\* front of it: no host is removed or replaced, and at most one is added,
\* whatever edit flow was cancelled before.
C38_AddInsertsOneOrNone ==
    ui # NoUi /\ ui.flow = "a" =>
        \/ ui.sshConfig = ui.before
        \/ /\ Len(ui.sshConfig) = Len(ui.before) + 1
           /\ Tail(ui.sshConfig) = ui.before
           /\ \A i \in 1 .. Len(ui.before) : ui.before[i].Name # Head(ui.sshConfig).Name

\* C39: in the host list with a filtered host list that is not empty, the
\* cursor is an index of that list, whatever views were shown before.
C39_CursorInList ==
    ui # NoUi /\ ui.viewMode = "ModeList" /\ Len(ui.filteredHosts) > 0 =>
        0 <= ui.cursor /\ ui.cursor < Len(ui.filteredHosts)

\* C40: the stop key of the forwarding list stops the session that the
\* list shows at the cursor: the id passed to StopForwarding is the id at
\* the cursor's place in the order the list was last drawn in.
C40_StopsRenderedSession ==
    [][ui # NoUi /\ ui.pc = "keys" /\ ui.viewMode = "ModeForwardingList"
         /\ ui'.pc = "call" /\ ui'.op = "StopForwarding"
       => /\ ui.cursor < Len(ui.rendered)
          /\ ui'.rule.ID = ui.rendered[ui.cursor + 1]]_vars
====
